---- MODULE Spec2Model ----
(***************************************************************************)
(* The demand-simulation core of plately_ai: SimulationEngine              *)
(* (simulation/simulation_engine.py) and CustomerAgent                     *)
(* (simulation/customer_agent.py).                                         *)
(*                                                                         *)
(* Units.  Prices and budgets are integers (cents).  A preference score is *)
(* an integer k that stands for k/2 (1 is 0.5, 2 is 1.0).  A percentage    *)
(* change is an integer number of percent (50 is +0.5).  A utility is a    *)
(* pair <<num, den>> standing for the fraction num/den, den > 0.           *)
(*                                                                         *)
(* Python objects.  The engine's menus are lists of dict objects.  The     *)
(* constructor builds current_menu_items as list(master): a new list of    *)
(* the SAME dicts.  reset_menu_to_master builds new dicts.  The flag       *)
(* `aliased` records whether the dicts of current_menu_items are those of  *)
(* menu_items_master_list; a write through one is then a write to both.    *)
(***************************************************************************)
EXTENDS Integers, Sequences, FiniteSets, TLC

\* ------------------------------------------------------------------ bounds
\* num_agents given to the constructor.
NumAgents == 1
\* Longest price_percentage_changes list given to run_ped_simulation_set.
MaxSweep == 2
\* Longest choices_data list a caller hands to analyze_results.
MaxChoices == 2

\* ------------------------------------------------------------- input sets
Ids == {"a", "b"}
\* An id no menu holds.
NoId == "zz"
\* The ids given to the operations that take one id, and to
\* run_xed_simulation_set, which takes two.
IdArgs == {"a", NoId}
XedIdArgs == Ids \cup {NoId}
\* A name no menu holds.
NoName == "Ghost"

ItemA == [id |-> "a", name |-> "A", price |-> 2]
ItemB == [id |-> "b", name |-> "B", price |-> 4]
\* Same id as ItemA, same name as ItemB, free of charge.
ItemC == [id |-> "a", name |-> "B", price |-> 0]

\* The menus given to the constructor (all pass _validate_menu_items).
Menus == {<<>>, <<ItemA, ItemB>>, <<ItemC, ItemA, ItemB>>}

\* A Python value given where a price is expected: a number, or something
\* that is no int or float (num = FALSE).
Num(v) == [num |-> TRUE, val |-> v]
NotANumber == [num |-> FALSE, val |-> 0]
PriceArgs == {Num(-1), Num(3), NotANumber}

\* agent_budget_range given to the constructor, and the values
\* random.uniform draws from it.
agent_budget_range == <<3, 6>>
Budgets == {b \in agent_budget_range[1]..agent_budget_range[2] : b \in {3, 6}}
\* agent_price_sensitivity_range given to the constructor and what
\* random.uniform draws from it.
Sensitivities == {2}
\* random.uniform(0.1, 1.0) of generate_random_preferences, in halves.
GeneratedPrefs == {2}
\* random.uniform(0.05, 0.5) of choose_items, in halves.
LazyPrefs == {1}
\* max_items_per_agent: the default of every engine method, and what a
\* caller of run_simulation_step may pass instead.
DefaultMaxItems == 3
MaxItemsArgs == {1, DefaultMaxItems}
\* Percentage changes, in percent.
PctArgs == {-150, 0, 50}

\* ---------------------------------------------------------------- helpers
RECURSIVE Pow(_, _)
Pow(b, n) == IF n <= 0 THEN 1 ELSE b * Pow(b, n - 1)

RECURSIVE SumSeq(_)
SumSeq(s) == IF s = <<>> THEN 0 ELSE Head(s) + SumSeq(Tail(s))

SeqsUpTo(S, n) == UNION {[1..k -> S] : k \in 0..n}

\* next((item for item in menu if item['id'] == item_id), None): the
\* position of the first item with that id, 0 for None.
FindFirst(menu, item_id) ==
  IF \E i \in 1..Len(menu) : menu[i].id = item_id
  THEN CHOOSE i \in 1..Len(menu) :
         /\ menu[i].id = item_id
         /\ \A j \in 1..(i - 1) : menu[j].id # item_id
  ELSE 0

\* --------------------------------------------------------- CustomerAgent
\* price ** exponent for the exponent x/2.  An odd x needs a price that is
\* a perfect square (the inputs are chosen so).
Isqrt(p) == CHOOSE r \in 0..p : r * r = p
PowHalf(p, x) == IF x % 2 = 0 THEN Pow(p, x \div 2) ELSE Pow(Isqrt(p), x)

\* Fractions <<num, den>> with den > 0.
FracGT(u, v) == u[1] * v[2] > v[1] * u[2]
FracGE(u, v) == u[1] * v[2] >= v[1] * u[2]
FracPos(u) == u[1] > 0

\* Mutant of _calculate_utility: the preference is multiplied by the power
\* of the price.
_calculate_utility_TimesPrice(agent, item) ==
  IF item.id \notin DOMAIN agent.preferences THEN <<0, 1>>
  ELSE IF "price" \notin DOMAIN item \/ item.price <= 0
       THEN <<agent.preferences[item.id], 2>>
  ELSE IF agent.preferences[item.id] = 0 THEN <<0, 1>>
  ELSE <<agent.preferences[item.id]
           * PowHalf(item.price,
                     agent.price_sensitivity * (1 + agent.preferences[item.id])),
         2>>

\* Mutant of _calculate_utility: the exponent is price_sensitivity alone,
\* as the docstring has it.
_calculate_utility_PlainSensitivity(agent, item) ==
  IF item.id \notin DOMAIN agent.preferences THEN <<0, 1>>
  ELSE IF "price" \notin DOMAIN item \/ item.price <= 0
       THEN <<agent.preferences[item.id], 2>>
  ELSE IF agent.preferences[item.id] = 0 THEN <<0, 1>>
  ELSE <<agent.preferences[item.id],
         2 * PowHalf(item.price, 2 * agent.price_sensitivity)>>

\* CustomerAgent._calculate_utility.  preferences[id] = k stands for k/2,
\* so the exponent price_sensitivity * (0.5 + preference) is
\* price_sensitivity * (1 + k) / 2.  An item without the field price is a
\* dict without the key: item.get('price') is None.
_calculate_utility(agent, item) ==
  IF item.id \notin DOMAIN agent.preferences THEN <<0, 1>>
  ELSE IF "price" \notin DOMAIN item \/ item.price <= 0
       THEN <<agent.preferences[item.id], 2>>
  ELSE IF agent.preferences[item.id] = 0 THEN <<0, 1>>
  ELSE <<agent.preferences[item.id],
         2 * PowHalf(item.price,
                     agent.price_sensitivity * (1 + agent.preferences[item.id]))>>

\* Mutant of generate_random_preferences: a mapping that is not empty gets
\* the ids it lacks.
generate_random_preferences_FillsMissing(agent, all_item_ids, draw) ==
  [agent EXCEPT !.preferences =
     [i \in DOMAIN agent.preferences \cup all_item_ids |->
        IF i \in DOMAIN agent.preferences THEN agent.preferences[i] ELSE draw[i]]]

\* CustomerAgent.generate_random_preferences: acts only on an empty
\* mapping; draw gives the random score of every id.
generate_random_preferences(agent, all_item_ids, draw) ==
  IF DOMAIN agent.preferences = {}
  THEN [agent EXCEPT !.preferences = [i \in all_item_ids |-> draw[i]]]
  ELSE agent

\* choose_items, lines 102-106: every id of the menu without an entry gets
\* a random low score (draw).
MissingIds(preferences, menu) ==
  {menu[i].id : i \in 1..Len(menu)} \ DOMAIN preferences
\* Mutant of FillPreferences: every id of the menu gets a new score, the
\* ids with an entry included.
FillPreferences_Redraws(preferences, menu, draw) ==
  [i \in DOMAIN preferences \cup {menu[k].id : k \in 1..Len(menu)} |->
     IF i \in {menu[k].id : k \in 1..Len(menu)} THEN draw[i] ELSE preferences[i]]

FillPreferences(preferences, menu, draw) ==
  [i \in DOMAIN preferences \cup MissingIds(preferences, menu) |->
     IF i \in DOMAIN preferences THEN preferences[i] ELSE draw[i]]

\* choose_items, lines 108-114: the menu positions of the items priced at
\* or below the budget with positive utility, in menu order.
\* Mutant of PotentialFrom: the last item of the menu is never looked at.
RECURSIVE PotentialFrom_SkipsLastItem(_, _, _, _)
PotentialFrom_SkipsLastItem(agent, menu, budget, i) ==
  IF i >= Len(menu) THEN <<>>
  ELSE (IF menu[i].price <= budget /\ FracPos(_calculate_utility(agent, menu[i]))
        THEN <<i>> ELSE <<>>) \o PotentialFrom_SkipsLastItem(agent, menu, budget, i + 1)

RECURSIVE PotentialFrom(_, _, _, _)
PotentialFrom(agent, menu, budget, i) ==
  IF i > Len(menu) THEN <<>>
  ELSE (IF menu[i].price <= budget /\ FracPos(_calculate_utility(agent, menu[i]))
        THEN <<i>> ELSE <<>>) \o PotentialFrom(agent, menu, budget, i + 1)
PotentialChoices(agent, menu, budget) == PotentialFrom(agent, menu, budget, 1)

\* choose_items, line 117: list.sort(key=utility, reverse=True), a stable
\* sort: equal utilities keep their order.
\* Mutant of InsertDesc: a sort that is not stable, a candidate goes before
\* the candidates of equal utility.
InsertDesc_BeforeEquals(agent, menu, sorted, i) ==
  LET keep == {k \in 0..Len(sorted) :
                 \A j \in 1..k :
                   FracGT(_calculate_utility(agent, menu[sorted[j]]),
                          _calculate_utility(agent, menu[i]))}
      k == CHOOSE k \in keep : \A m \in keep : m <= k
  IN SubSeq(sorted, 1, k) \o <<i>> \o SubSeq(sorted, k + 1, Len(sorted))

InsertDesc(agent, menu, sorted, i) ==
  LET keep == {k \in 0..Len(sorted) :
                 \A j \in 1..k :
                   FracGE(_calculate_utility(agent, menu[sorted[j]]),
                          _calculate_utility(agent, menu[i]))}
      k == CHOOSE k \in keep : \A m \in keep : m <= k
  IN SubSeq(sorted, 1, k) \o <<i>> \o SubSeq(sorted, k + 1, Len(sorted))
RECURSIVE SortFrom(_, _, _, _)
SortFrom(agent, menu, potential, n) ==
  IF n = 0 THEN <<>>
  ELSE InsertDesc(agent, menu, SortFrom(agent, menu, potential, n - 1), potential[n])
SortByUtility(agent, menu, potential) ==
  SortFrom(agent, menu, potential, Len(potential))

\* Mutant of ChooseLoop: line 124 without the comparison of the price with
\* the remaining budget.
RECURSIVE ChooseLoop_NoBudgetCheck(_, _, _, _, _, _)
ChooseLoop_NoBudgetCheck(menu, sorted, max_items_to_choose, i, chosen, remaining_budget) ==
  IF i > Len(sorted) THEN chosen
  ELSE LET take == Len(chosen) < max_items_to_choose
           chosen2 == IF take THEN Append(chosen, sorted[i]) ELSE chosen
           remaining2 == IF take THEN remaining_budget - menu[sorted[i]].price
                         ELSE remaining_budget
       IN IF Len(chosen2) >= max_items_to_choose \/ remaining2 <= 0
          THEN chosen2
          ELSE ChooseLoop_NoBudgetCheck(menu, sorted, max_items_to_choose, i + 1,
                                        chosen2, remaining2)

\* Mutant of ChooseLoop: the loop ends at the first candidate it cannot
\* afford.
RECURSIVE ChooseLoop_StopsAtUnaffordable(_, _, _, _, _, _)
ChooseLoop_StopsAtUnaffordable(menu, sorted, max_items_to_choose, i, chosen, remaining_budget) ==
  IF i > Len(sorted) THEN chosen
  ELSE IF Len(chosen) >= max_items_to_choose
          \/ menu[sorted[i]].price > remaining_budget
       THEN chosen
       ELSE ChooseLoop_StopsAtUnaffordable(menu, sorted, max_items_to_choose, i + 1,
                                           Append(chosen, sorted[i]),
                                           remaining_budget - menu[sorted[i]].price)

\* choose_items, lines 120-129: the greedy loop over the sorted candidates.
RECURSIVE ChooseLoop(_, _, _, _, _, _)
ChooseLoop(menu, sorted, max_items_to_choose, i, chosen, remaining_budget) ==
  IF i > Len(sorted) THEN chosen
  ELSE LET take == /\ Len(chosen) < max_items_to_choose
                   /\ menu[sorted[i]].price <= remaining_budget
           chosen2 == IF take THEN Append(chosen, sorted[i]) ELSE chosen
           remaining2 == IF take THEN remaining_budget - menu[sorted[i]].price
                         ELSE remaining_budget
       IN IF Len(chosen2) >= max_items_to_choose \/ remaining2 <= 0
          THEN chosen2
          ELSE ChooseLoop(menu, sorted, max_items_to_choose, i + 1, chosen2, remaining2)

\* CustomerAgent.choose_items: the agent afterwards.  chosen_items holds the
\* positions in menu of the chosen item objects, in the order chosen.
choose_items(agent, menu, max_items_to_choose, draw) ==
  IF menu = <<>> THEN [agent EXCEPT !.chosen_items = <<>>]
  ELSE LET filled == [agent EXCEPT
                        !.preferences = FillPreferences(agent.preferences, menu, draw)]
           sorted == SortByUtility(filled, menu,
                                   PotentialChoices(filled, menu, filled.budget))
       IN [filled EXCEPT !.chosen_items =
             ChooseLoop(menu, sorted, max_items_to_choose, 1, <<>>, filled.budget)]

\* ------------------------------------------------------ SimulationEngine
VARIABLES
  constructed_menu,        \* the copies _validate_menu_items returned to __init__
  menu_items_master_list,  \* self.menu_items_master_list
  current_menu_items,      \* self.current_menu_items
  aliased,                 \* current_menu_items holds the dicts of the master list
  agents,                  \* self.agents
  pc,                      \* "idle" between calls, "ped" inside the sweep's loop
  frame,                   \* the locals of the call in progress
  call,                    \* the last public call and its arguments
  ret                      \* what the last public call returned

vars == <<constructed_menu, menu_items_master_list, current_menu_items, aliased,
          agents, pc, frame, call, ret>>

\* The two menus of an engine, as one value m.
EngineMenus == [master |-> menu_items_master_list,
                working |-> current_menu_items,
                aliased |-> aliased]

\* Mutant of reset_menu_to_master: the new dicts are copies of the working
\* menu's.
reset_menu_to_master_CopiesWorking(m) == [m EXCEPT !.aliased = FALSE]

\* SimulationEngine.reset_menu_to_master: new dicts, copies of the master's.
reset_menu_to_master(m) == [m EXCEPT !.working = m.master, !.aliased = FALSE]

\* Mutant of PriceIsValid: the sign of the price is not checked.
PriceIsValid_NoSignCheck(new_price) == new_price.num

\* Mutant of update_menu_item_price: an id the working menu does not hold
\* is added to it with the new price.
update_menu_item_price_AppendsMissing(m, item_id, new_price) ==
  LET i == FindFirst(m.working, item_id)
  IN IF ~(new_price.num /\ new_price.val >= 0) THEN <<FALSE, m>>
     ELSE IF i = 0
     THEN <<TRUE, [m EXCEPT !.working =
                     Append(@, [id |-> item_id, name |-> item_id,
                                price |-> new_price.val])]>>
     ELSE <<TRUE,
            [m EXCEPT !.working[i].price = new_price.val,
                      !.master = IF m.aliased
                                 THEN [m.master EXCEPT ![i].price = new_price.val]
                                 ELSE m.master]>>

\* SimulationEngine.update_menu_item_price, line 59.
PriceIsValid(new_price) == new_price.num /\ new_price.val >= 0
\* SimulationEngine.update_menu_item_price: <<returned, menus afterwards>>.
\* item['price'] = new_price writes to the dict found in current_menu_items,
\* which is the master's dict as long as the lists are aliased.
update_menu_item_price(m, item_id, new_price) ==
  LET i == FindFirst(m.working, item_id)
  IN IF ~PriceIsValid(new_price) \/ i = 0 THEN <<FALSE, m>>
     ELSE <<TRUE,
            [m EXCEPT !.working[i].price = new_price.val,
                      !.master = IF m.aliased
                                 THEN [m.master EXCEPT ![i].price = new_price.val]
                                 ELSE m.master]>>

\* Mutant of StepAgentsTo: line 90 adds the draw to the budget the agent
\* has.
RECURSIVE StepAgentsTo_BudgetAccumulates(_, _, _, _, _)
StepAgentsTo_BudgetAccumulates(ags, menu, max_items_per_agent, budgets, n) ==
  IF n = 0 THEN <<>>
  ELSE Append(StepAgentsTo_BudgetAccumulates(ags, menu, max_items_per_agent, budgets,
                                             n - 1),
              choose_items([ags[n] EXCEPT !.budget = @ + budgets[n],
                                          !.chosen_items = <<>>],
                           menu, max_items_per_agent,
                           [d \in Ids |-> CHOOSE v \in LazyPrefs : TRUE]))

\* run_simulation_step, lines 89-93: every agent gets a new budget (budgets)
\* and chooses from the menu.
RECURSIVE StepAgentsTo(_, _, _, _, _)
StepAgentsTo(ags, menu, max_items_per_agent, budgets, n) ==
  IF n = 0 THEN <<>>
  ELSE Append(StepAgentsTo(ags, menu, max_items_per_agent, budgets, n - 1),
              choose_items([ags[n] EXCEPT !.budget = budgets[n], !.chosen_items = <<>>],
                           menu, max_items_per_agent,
                           [d \in Ids |-> CHOOSE v \in LazyPrefs : TRUE]))
StepAgents(ags, menu, max_items_per_agent, budgets) ==
  StepAgentsTo(ags, menu, max_items_per_agent, budgets, Len(ags))

\* run_simulation_step, lines 94-100: the records of one agent.
ChoiceRecords(agent, menu) ==
  [k \in 1..Len(agent.chosen_items) |->
     [agent_id |-> agent.agent_id,
      chosen_item_id |-> menu[agent.chosen_items[k]].id,
      chosen_item_name |-> menu[agent.chosen_items[k]].name,
      item_price_at_purchase |-> menu[agent.chosen_items[k]].price]]
\* Mutant of AllChoices: the records of the last agent come first.
RECURSIVE AllChoices_LastAgentFirst(_, _, _)
AllChoices_LastAgentFirst(ags, menu, n) ==
  IF n = 0 THEN <<>>
  ELSE ChoiceRecords(ags[n], menu) \o AllChoices_LastAgentFirst(ags, menu, n - 1)

RECURSIVE AllChoices(_, _, _)
AllChoices(ags, menu, n) ==
  IF n = 0 THEN <<>>
  ELSE AllChoices(ags, menu, n - 1) \o ChoiceRecords(ags[n], menu)
\* SimulationEngine.run_simulation_step: <<returned, agents afterwards>>.
run_simulation_step(ags, menu, max_items_per_agent, budgets) ==
  LET after == CHOOSE x \in {StepAgents(ags, menu, max_items_per_agent, budgets)} : TRUE
  IN <<AllChoices(after, menu, Len(after)), after>>

\* The names of the working menu: the keys of both per-item mappings.
MenuNames(menu) == {menu[i].name : i \in 1..Len(menu)}
\* Mutant of CountName: whether the name was chosen, not how often.
CountName_Once(choices, name) ==
  IF \E k \in 1..Len(choices) : choices[k].chosen_item_name = name THEN 1 ELSE 0

\* demand_counts.get(name, 0): the records with that name.
RECURSIVE CountName(_, _)
CountName(choices, name) ==
  IF choices = <<>> THEN 0
  ELSE (IF Head(choices).chosen_item_name = name THEN 1 ELSE 0)
       + CountName(Tail(choices), name)
\* revenue_counts.get(name, 0): the prices of the records with that name.
RECURSIVE RevenueName(_, _)
RevenueName(choices, name) ==
  IF choices = <<>> THEN 0
  ELSE (IF Head(choices).chosen_item_name = name
        THEN Head(choices).item_price_at_purchase ELSE 0)
       + RevenueName(Tail(choices), name)
RECURSIVE TotalRevenue(_)
TotalRevenue(choices) ==
  IF choices = <<>> THEN 0
  ELSE Head(choices).item_price_at_purchase + TotalRevenue(Tail(choices))
\* Mutant of analyze_results: without the fill of lines 128-129, the
\* mappings hold the chosen names only.
analyze_results_ChosenOnly(menu, choices_data) ==
  LET chosen == {n \in MenuNames(menu) : CountName(choices_data, n) > 0}
  IN [total_revenue |-> TotalRevenue(choices_data),
      total_items_sold |-> Len(choices_data),
      demand_per_item |-> [n \in chosen |-> CountName(choices_data, n)],
      revenue_per_item |-> [n \in chosen |-> RevenueName(choices_data, n)]]

\* SimulationEngine.analyze_results.
analyze_results(menu, choices_data) ==
  IF choices_data = <<>>
  THEN [total_revenue |-> 0, total_items_sold |-> 0,
        demand_per_item |-> [n \in MenuNames(menu) |-> 0],
        revenue_per_item |-> [n \in MenuNames(menu) |-> 0]]
  ELSE [total_revenue |-> TotalRevenue(choices_data),
        total_items_sold |-> Len(choices_data),
        demand_per_item |-> [n \in MenuNames(menu) |-> CountName(choices_data, n)],
        revenue_per_item |-> [n \in MenuNames(menu) |-> RevenueName(choices_data, n)]]

\* dict.get(name, 0) on a per-item mapping.
DictGet(d, name) == IF name \in DOMAIN d THEN d[name] ELSE 0

\* round(base_price * (1 + percentage_change), 2), in cents with the change
\* in percent: the nearest integer to base * (100 + pct) / 100, a tie going
\* to the even one.
RoundedPrice(base_price, pct) ==
  LET n == base_price * (100 + pct)
      q == n \div 100
      r == n % 100
  IN IF r < 50 THEN q
     ELSE IF r > 50 THEN q + 1
     ELSE IF q % 2 = 0 THEN q ELSE q + 1

\* ----------------------------------------------------------- construction
\* CustomerAgent.__init__ followed by generate_random_preferences, as
\* _create_agents calls them for agent number i (agent_id "agent_00i").
NewAgent(i, budget, sensitivity, all_item_ids, draw) ==
  generate_random_preferences(
    [agent_id |-> i, budget |-> budget, price_sensitivity |-> sensitivity,
     preferences |-> <<>>, chosen_items |-> <<>>],
    all_item_ids, draw)

\* all_item_ids of __init__, as a set.
AllItemIds(menu) == {menu[i].id : i \in 1..Len(menu)}

NoFrame == <<>>

\* SimulationEngine.__init__ on a menu that passes _validate_menu_items.
Init ==
  \E menu \in Menus :
    \E budgets \in [1..NumAgents -> Budgets],
       sens \in [1..NumAgents -> Sensitivities],
       draws \in [1..NumAgents -> [AllItemIds(menu) -> GeneratedPrefs]] :
      /\ constructed_menu = menu
      /\ menu_items_master_list = menu
      /\ current_menu_items = menu
      /\ aliased = TRUE
      /\ agents = [i \in 1..NumAgents |->
                     NewAgent(i - 1, budgets[i], sens[i], AllItemIds(menu), draws[i])]
      /\ pc = "idle"
      /\ frame = NoFrame
      /\ call = [op |-> "__init__", steps |-> 0]
      /\ ret = [kind |-> "none"]

SetMenus(m) ==
  /\ menu_items_master_list' = m.master
  /\ current_menu_items' = m.working
  /\ aliased' = m.aliased

None == [kind |-> "none"]
\* No value yet: the call has not returned.
Pending == [kind |-> "pending"]
\* One random.uniform(*agent_budget_range) per agent.
BudgetDraws == [1..NumAgents -> Budgets]

\* ------------------------------------------------------- public operations
\* engine.update_menu_item_price(item_id, new_price)
UpdateItemPrice ==
  \E item_id \in IdArgs, new_price \in PriceArgs :
    LET r == update_menu_item_price(EngineMenus, item_id, new_price)
    IN /\ pc = "idle"
       /\ SetMenus(r[2])
       /\ call' = [op |-> "update_menu_item_price", item_id |-> item_id,
                   new_price |-> new_price, steps |-> 0]
       /\ ret' = [kind |-> "bool", val |-> r[1]]
       /\ UNCHANGED <<constructed_menu, agents, pc, frame>>

\* engine.reset_menu_to_master()
ResetToMaster ==
  /\ pc = "idle"
  /\ SetMenus(reset_menu_to_master(EngineMenus))
  /\ call' = [op |-> "reset_menu_to_master", steps |-> 0]
  /\ ret' = None
  /\ UNCHANGED <<constructed_menu, agents, pc, frame>>

\* engine.run_simulation_step(max_items_per_agent)
RunStep ==
  \E max_items \in MaxItemsArgs, budgets \in BudgetDraws :
    LET r == run_simulation_step(agents, current_menu_items, max_items, budgets)
    IN /\ pc = "idle"
       /\ agents' = r[2]
       /\ call' = [op |-> "run_simulation_step", max_items |-> max_items, steps |-> 1]
       /\ ret' = [kind |-> "choices", val |-> r[1]]
       /\ UNCHANGED <<constructed_menu, menu_items_master_list, current_menu_items,
                      aliased, pc, frame>>

\* The choice records a caller may hand to analyze_results.
Choice(item_id, name, price) ==
  [agent_id |-> 0, chosen_item_id |-> item_id, chosen_item_name |-> name,
   item_price_at_purchase |-> price]
ChoiceArgs == {Choice("a", "A", 3), Choice(NoId, NoName, 1)}

\* engine.analyze_results(choices_data)
Aggregate ==
  \E choices \in SeqsUpTo(ChoiceArgs, MaxChoices) \cup
                 (IF ret.kind = "choices" THEN {ret.val} ELSE {}) :
    /\ pc = "idle"
    /\ call' = [op |-> "analyze_results", choices |-> choices, steps |-> 0]
    /\ ret' = [kind |-> "analysis", val |-> analyze_results(current_menu_items, choices)]
    /\ UNCHANGED <<constructed_menu, menu_items_master_list, current_menu_items,
                   aliased, agents, pc, frame>>

\* Mutant of RunPriceScenario: line 156, the reset after a successful run,
\* is left out.
RunPriceScenario_NoFinalReset ==
  \E item_id \in IdArgs, new_price \in PriceArgs, budgets \in BudgetDraws :
    LET m1 == reset_menu_to_master(EngineMenus)
        upd == update_menu_item_price(m1, item_id, new_price)
        step == run_simulation_step(agents, upd[2].working, DefaultMaxItems, budgets)
        c == [op |-> "run_price_scenario", item_id |-> item_id,
              new_price |-> new_price, steps |-> 0]
    IN /\ pc = "idle"
       /\ UNCHANGED <<constructed_menu, pc, frame>>
       /\ IF ~upd[1]
          THEN /\ SetMenus(reset_menu_to_master(upd[2]))
               /\ agents' = agents
               /\ call' = c
               /\ ret' = None
          ELSE /\ SetMenus(upd[2])
               /\ agents' = step[2]
               /\ call' = [c EXCEPT !.steps = 1]
               /\ ret' = [kind |-> "analysis",
                          val |-> analyze_results(upd[2].working, step[1])]

\* Mutant of RunPriceScenario: the step is run before the result of the
\* update is looked at.
RunPriceScenario_StepBeforeCheck ==
  \E item_id \in IdArgs, new_price \in PriceArgs, budgets \in BudgetDraws :
    LET m1 == reset_menu_to_master(EngineMenus)
        upd == update_menu_item_price(m1, item_id, new_price)
        step == run_simulation_step(agents, upd[2].working, DefaultMaxItems, budgets)
        c == [op |-> "run_price_scenario", item_id |-> item_id,
              new_price |-> new_price, steps |-> 0]
    IN /\ pc = "idle"
       /\ UNCHANGED <<constructed_menu, pc, frame>>
       /\ SetMenus(reset_menu_to_master(upd[2]))
       /\ agents' = step[2]
       /\ IF ~upd[1]
          THEN call' = c /\ ret' = None
          ELSE /\ call' = [c EXCEPT !.steps = 1]
               /\ ret' = [kind |-> "analysis",
                          val |-> analyze_results(upd[2].working, step[1])]

\* engine.run_price_scenario(item_id_to_change, new_price)
RunPriceScenario ==
  \E item_id \in IdArgs, new_price \in PriceArgs, budgets \in BudgetDraws :
    LET m1 == reset_menu_to_master(EngineMenus)
        upd == update_menu_item_price(m1, item_id, new_price)
        step == run_simulation_step(agents, upd[2].working, DefaultMaxItems, budgets)
        c == [op |-> "run_price_scenario", item_id |-> item_id,
              new_price |-> new_price, steps |-> 0]
    IN /\ pc = "idle"
       /\ UNCHANGED <<constructed_menu, pc, frame>>
       /\ IF ~upd[1]
          THEN /\ SetMenus(reset_menu_to_master(upd[2]))
               /\ agents' = agents
               /\ call' = c
               /\ ret' = None
          ELSE /\ SetMenus(reset_menu_to_master(upd[2]))
               /\ agents' = step[2]
               /\ call' = [c EXCEPT !.steps = 1]
               /\ ret' = [kind |-> "analysis",
                          val |-> analyze_results(upd[2].working, step[1])]

\* Mutant of XedCall: lines 240-242, the check that the two ids differ, are
\* left out.
XedCall_SameItemAllowed ==
  \E target_id \in XedIdArgs, affecting_id \in XedIdArgs, budgets \in BudgetDraws :
    LET t == FindFirst(menu_items_master_list, target_id)
        a == FindFirst(menu_items_master_list, affecting_id)
        c == [op |-> "run_xed_simulation_set", target_id |-> target_id,
              affecting_id |-> affecting_id, steps |-> 0]
    IN /\ pc = "idle"
       /\ UNCHANGED constructed_menu
       /\ IF t = 0 \/ a = 0
          THEN /\ call' = c
               /\ ret' = None
               /\ UNCHANGED <<menu_items_master_list, current_menu_items, aliased,
                              agents, pc, frame>>
          ELSE
            LET m1 == reset_menu_to_master(EngineMenus)
                step == run_simulation_step(agents, m1.working, DefaultMaxItems, budgets)
                target_name == menu_items_master_list[t].name
            IN /\ SetMenus(m1)
               /\ agents' = step[2]
               /\ call' = [c EXCEPT !.steps = 1]
               /\ ret' = Pending
               /\ pc' = "xed"
               /\ frame' = [target_item_id |-> target_id,
                            target_item_name |-> target_name,
                            affecting_item_id |-> affecting_id,
                            affecting_item_name |-> menu_items_master_list[a].name,
                            p_affecting_base |-> menu_items_master_list[a].price,
                            q_target_base |->
                              DictGet(analyze_results(m1.working, step[1]).demand_per_item,
                                      target_name)]

\* engine.run_xed_simulation_set(target_item_id, affecting_item_id,
\* affecting_item_price_percentage_change), lines 231-250: the lookups and
\* the baseline run.  The percentage change is first read on line 253 and
\* is drawn there.
XedCall ==
  \E target_id \in XedIdArgs, affecting_id \in XedIdArgs, budgets \in BudgetDraws :
    LET t == FindFirst(menu_items_master_list, target_id)
        a == FindFirst(menu_items_master_list, affecting_id)
        c == [op |-> "run_xed_simulation_set", target_id |-> target_id,
              affecting_id |-> affecting_id, steps |-> 0]
    IN /\ pc = "idle"
       /\ UNCHANGED constructed_menu
       /\ IF t = 0 \/ a = 0 \/ target_id = affecting_id
          THEN /\ call' = c
               /\ ret' = None
               /\ UNCHANGED <<menu_items_master_list, current_menu_items, aliased,
                              agents, pc, frame>>
          ELSE
            LET m1 == reset_menu_to_master(EngineMenus)
                step == run_simulation_step(agents, m1.working, DefaultMaxItems, budgets)
                target_name == menu_items_master_list[t].name
            IN /\ SetMenus(m1)
               /\ agents' = step[2]
               /\ call' = [c EXCEPT !.steps = 1]
               /\ ret' = Pending
               /\ pc' = "xed"
               /\ frame' = [target_item_id |-> target_id,
                            target_item_name |-> target_name,
                            affecting_item_id |-> affecting_id,
                            affecting_item_name |-> menu_items_master_list[a].name,
                            p_affecting_base |-> menu_items_master_list[a].price,
                            q_target_base |->
                              DictGet(analyze_results(m1.working, step[1]).demand_per_item,
                                      target_name)]

\* run_xed_simulation_set, lines 252-280: the scenario run and the return.
XedScenario ==
  \E pct \in PctArgs, budgets \in BudgetDraws :
    LET p_affecting_scenario == RoundedPrice(frame.p_affecting_base, pct)
        m2 == reset_menu_to_master(EngineMenus)
        upd == update_menu_item_price(m2, frame.affecting_item_id, Num(p_affecting_scenario))
        step == run_simulation_step(agents, upd[2].working, DefaultMaxItems, budgets)
    IN /\ pc = "xed"
       /\ pc' = "idle"
       /\ frame' = NoFrame
       /\ UNCHANGED constructed_menu
       /\ IF p_affecting_scenario < 0
          THEN /\ call' = [op |-> call.op, target_id |-> call.target_id,
                           affecting_id |-> call.affecting_id, steps |-> 1, pct |-> pct]
               /\ ret' = None
               /\ UNCHANGED <<menu_items_master_list, current_menu_items, aliased, agents>>
          ELSE IF ~upd[1]
          THEN /\ call' = [op |-> call.op, target_id |-> call.target_id,
                           affecting_id |-> call.affecting_id, steps |-> 1, pct |-> pct]
               /\ ret' = None
               /\ SetMenus(upd[2])
               /\ UNCHANGED agents
          ELSE /\ call' = [op |-> call.op, target_id |-> call.target_id,
                           affecting_id |-> call.affecting_id, steps |-> 2, pct |-> pct]
               /\ SetMenus(reset_menu_to_master(upd[2]))
               /\ agents' = step[2]
               /\ ret' = [kind |-> "sample",
                          val |-> [target_item_name |-> frame.target_item_name,
                                   target_item_id |-> frame.target_item_id,
                                   affecting_item_name |-> frame.affecting_item_name,
                                   affecting_item_id |-> frame.affecting_item_id,
                                   q_target_base |-> frame.q_target_base,
                                   q_target_scenario |->
                                     DictGet(analyze_results(upd[2].working, step[1])
                                               .demand_per_item,
                                             frame.target_item_name),
                                   p_affecting_base |-> frame.p_affecting_base,
                                   p_affecting_scenario |-> p_affecting_scenario,
                                   percentage_change_p_affecting |-> pct]]

\* engine.run_ped_simulation_set(item_id_to_vary, price_percentage_changes),
\* lines 174-188: the lookup and the baseline run.  The list
\* price_percentage_changes is read front to back by the loop; its elements
\* are drawn as the loop reaches them and call.pcts is the part read so far.
PedCall ==
  \E item_id \in IdArgs, budgets \in BudgetDraws :
    LET b == FindFirst(menu_items_master_list, item_id)
        c == [op |-> "run_ped_simulation_set", item_id |-> item_id, pcts |-> <<>>,
              steps |-> 0]
    IN /\ pc = "idle"
       /\ UNCHANGED constructed_menu
       /\ IF b = 0
          THEN /\ call' = c
               /\ ret' = None
               /\ UNCHANGED <<menu_items_master_list, current_menu_items, aliased,
                              agents, pc, frame>>
          ELSE
            LET m1 == reset_menu_to_master(EngineMenus)
                step == run_simulation_step(agents, m1.working, DefaultMaxItems, budgets)
                item_name == menu_items_master_list[b].name
                base_price == menu_items_master_list[b].price
            IN /\ SetMenus(m1)
               /\ agents' = step[2]
               /\ call' = [c EXCEPT !.steps = 1]
               /\ ret' = Pending
               /\ pc' = "ped"
               /\ frame' = [item_id |-> item_id, base_price |-> base_price,
                            item_name |-> item_name,
                            ped_data_points |->
                              <<[price |-> base_price,
                                 demand |->
                                   DictGet(analyze_results(m1.working, step[1])
                                             .demand_per_item, item_name),
                                 is_baseline |-> TRUE, percentage_change |-> 0]>>]

\* Mutant of PedIteration: lines 192-193, the skip of a change of 0, are
\* left out.
PedIteration_ZeroNotSkipped ==
  \E percentage_change \in PctArgs, budgets \in BudgetDraws :
    LET new_price == RoundedPrice(frame.base_price, percentage_change)
        m == reset_menu_to_master(EngineMenus)
        upd == update_menu_item_price(m, frame.item_id, Num(new_price))
        step == run_simulation_step(agents, upd[2].working, DefaultMaxItems, budgets)
    IN /\ pc = "ped"
       /\ Len(call.pcts) < MaxSweep
       /\ UNCHANGED <<constructed_menu, pc, ret>>
       /\ IF new_price < 0
          THEN /\ call' = [call EXCEPT !.pcts = Append(@, percentage_change)]
               /\ UNCHANGED <<menu_items_master_list, current_menu_items, aliased,
                              agents, frame>>
          ELSE IF ~upd[1]
          THEN /\ call' = [call EXCEPT !.pcts = Append(@, percentage_change)]
               /\ SetMenus(upd[2])
               /\ UNCHANGED <<agents, frame>>
          ELSE /\ call' = [call EXCEPT !.pcts = Append(@, percentage_change),
                                       !.steps = @ + 1]
               /\ SetMenus(upd[2])
               /\ agents' = step[2]
               /\ frame' = [frame EXCEPT !.ped_data_points =
                              Append(@, [price |-> new_price,
                                         demand |->
                                           DictGet(analyze_results(upd[2].working, step[1])
                                                     .demand_per_item, frame.item_name),
                                         is_baseline |-> FALSE,
                                         percentage_change |-> percentage_change])]

\* run_ped_simulation_set, lines 191-209: one iteration of the loop, for the
\* next element percentage_change of the list.
PedIteration ==
  \E percentage_change \in PctArgs, budgets \in BudgetDraws :
    LET new_price == RoundedPrice(frame.base_price, percentage_change)
        m == reset_menu_to_master(EngineMenus)
        upd == update_menu_item_price(m, frame.item_id, Num(new_price))
        step == run_simulation_step(agents, upd[2].working, DefaultMaxItems, budgets)
    IN /\ pc = "ped"
       /\ Len(call.pcts) < MaxSweep
       /\ UNCHANGED <<constructed_menu, pc, ret>>
       /\ IF percentage_change = 0 \/ new_price < 0
          THEN /\ call' = [call EXCEPT !.pcts = Append(@, percentage_change)]
               /\ UNCHANGED <<menu_items_master_list, current_menu_items, aliased,
                              agents, frame>>
          ELSE IF ~upd[1]
          THEN /\ call' = [call EXCEPT !.pcts = Append(@, percentage_change)]
               /\ SetMenus(upd[2])
               /\ UNCHANGED <<agents, frame>>
          ELSE /\ call' = [call EXCEPT !.pcts = Append(@, percentage_change),
                                       !.steps = @ + 1]
               /\ SetMenus(upd[2])
               /\ agents' = step[2]
               /\ frame' = [frame EXCEPT !.ped_data_points =
                              Append(@, [price |-> new_price,
                                         demand |->
                                           DictGet(analyze_results(upd[2].working, step[1])
                                                     .demand_per_item, frame.item_name),
                                         is_baseline |-> FALSE,
                                         percentage_change |-> percentage_change])]

\* Mutant of PedReturn: line 211, the reset after the loop, is left out.
PedReturn_NoReset ==
  /\ pc = "ped"
  /\ ret' = [kind |-> "points", val |-> frame.ped_data_points]
  /\ pc' = "idle"
  /\ frame' = NoFrame
  /\ UNCHANGED <<constructed_menu, menu_items_master_list, current_menu_items, aliased,
                 agents, call>>

\* run_ped_simulation_set, lines 211-212, once the list is read to its
\* end: the last reset and the return.
PedReturn ==
  /\ pc = "ped"
  /\ SetMenus(reset_menu_to_master(EngineMenus))
  /\ ret' = [kind |-> "points", val |-> frame.ped_data_points]
  /\ pc' = "idle"
  /\ frame' = NoFrame
  /\ UNCHANGED <<constructed_menu, agents, call>>

Next ==
  \/ UpdateItemPrice
  \/ ResetToMaster
  \/ RunStep
  \/ Aggregate
  \/ RunPriceScenario
  \/ XedCall
  \/ XedScenario
  \/ PedCall
  \/ PedIteration
  \/ PedReturn

Spec == Init /\ [][Next]_vars

\* ================================================================ claims
Idle == pc = "idle"
Returned(op) == pc = "idle" /\ call.op = op

\* Same length, and position by position the same id and the same price.
SameIdsAndPrices(w, m) ==
  /\ Len(w) = Len(m)
  /\ \A i \in 1..Len(w) : w[i].id = m[i].id /\ w[i].price = m[i].price

HasId(menu, item_id) == \E i \in 1..Len(menu) : menu[i].id = item_id

\* C1: the master menu never changes after construction: whatever public
\* operations have run, every master item has the id, name and price it had
\* when the engine was constructed.
C1_MasterNeverChanges == menu_items_master_list = constructed_menu

\* C2, as stated: after any public operation returns, the working menu has
\* the ids and prices of the master menu.
C2_WorkingEqualsMasterBetweenCalls ==
  (Idle /\ call.op # "__init__") =>
    SameIdsAndPrices(current_menu_items, menu_items_master_list)

\* C2, amended: after reset_menu_to_master, run_price_scenario, and a
\* run_ped_simulation_set or run_xed_simulation_set that ran at least one
\* step returns, the working menu has the ids and prices of the master menu.
C2_WorkingEqualsMasterAfterResettingCalls ==
  (/\ Idle
   /\ \/ call.op \in {"reset_menu_to_master", "run_price_scenario"}
      \/ /\ call.op \in {"run_ped_simulation_set", "run_xed_simulation_set"}
         /\ call.steps >= 1) =>
    SameIdsAndPrices(current_menu_items, menu_items_master_list)

\* C2 witness: a sweep of two price changes has returned, from an engine
\* whose working menu had been changed before.
C2_Witness ==
  /\ Returned("run_ped_simulation_set")
  /\ call.steps = 3
  /\ ~aliased
  /\ menu_items_master_list # constructed_menu

\* C3: when run_price_scenario returns, with an aggregation or with null,
\* the working menu equals the master menu; so it does when
\* run_ped_simulation_set or run_xed_simulation_set return after at least
\* one simulation step.
C3_ScenarioRestoresWorking ==
  /\ Returned("run_price_scenario") =>
       /\ ret.kind \in {"none", "analysis"}
       /\ current_menu_items = menu_items_master_list
  /\ (Returned("run_ped_simulation_set") /\ call.steps >= 1) =>
       current_menu_items = menu_items_master_list
  /\ (Returned("run_xed_simulation_set") /\ call.steps >= 1) =>
       current_menu_items = menu_items_master_list

\* C3 witness: run_price_scenario has returned an aggregation taken at a
\* price that is not the master's.
C3_Witness ==
  /\ Returned("run_price_scenario")
  /\ ret.kind = "analysis"
  /\ \E i \in 1..Len(menu_items_master_list) :
       /\ menu_items_master_list[i].id = call.item_id
       /\ menu_items_master_list[i].price # call.new_price.val

\* C4: update_menu_item_price returns false and changes no working price
\* when the price is negative or no number or the id is not in the working
\* menu; otherwise it returns true, one working item with that id has the
\* new price, and every other working item is as it was.
C4_UpdateItemPrice ==
  [][(pc = "idle" /\ call'.op = "update_menu_item_price") =>
       LET w == current_menu_items
           rejected == \/ ~call'.new_price.num
                       \/ call'.new_price.val < 0
                       \/ \A i \in 1..Len(w) : w[i].id # call'.item_id
       IN IF rejected
          THEN ret'.val = FALSE /\ current_menu_items' = w
          ELSE /\ ret'.val = TRUE
               /\ Len(current_menu_items') = Len(w)
               /\ \E i \in 1..Len(w) :
                    /\ w[i].id = call'.item_id
                    /\ current_menu_items'[i] =
                         [w[i] EXCEPT !.price = call'.new_price.val]
                    /\ \A j \in 1..Len(w) : j # i => current_menu_items'[j] = w[j]
    ]_vars

\* C4 witness: an accepted update has made the working price of an item
\* differ from its master price.
C4_Witness ==
  /\ Returned("update_menu_item_price")
  /\ ret.val = TRUE
  /\ \E i \in 1..Len(current_menu_items) :
       /\ current_menu_items[i].id = call.item_id
       /\ current_menu_items[i].price = call.new_price.val
       /\ menu_items_master_list[i].price # call.new_price.val

\* C5: run_price_scenario returns null exactly when the id is not in the
\* master menu or the price is negative or no number, and then no agent
\* changes; in every other case it returns the aggregation of the one step
\* it ran, taken on the master menu with the new price.
C5_PriceScenarioResult ==
  [][(pc = "idle" /\ call'.op = "run_price_scenario") =>
       LET master == menu_items_master_list
           rejected == \/ ~HasId(master, call'.item_id)
                       \/ ~call'.new_price.num
                       \/ call'.new_price.val < 0
           scenario_menu ==
             [j \in 1..Len(master) |->
                IF /\ master[j].id = call'.item_id
                   /\ \A k \in 1..(j - 1) : master[k].id # call'.item_id
                THEN [master[j] EXCEPT !.price = call'.new_price.val]
                ELSE master[j]]
       IN /\ (ret'.kind = "none") <=> rejected
          /\ rejected => (agents' = agents /\ call'.steps = 0)
          /\ ~rejected =>
               /\ ret'.kind = "analysis"
               /\ call'.steps = 1
               /\ \A i \in 1..Len(agents') :
                    agents'[i].budget \in agent_budget_range[1]..agent_budget_range[2]
               /\ ret'.val = analyze_results(scenario_menu,
                                             AllChoices(agents', scenario_menu, Len(agents')))
    ]_vars

\* C5 witness: run_price_scenario has returned null for an id of the menu
\* and a price that is no valid price.
C5_Witness ==
  /\ Returned("run_price_scenario")
  /\ ret.kind = "none"
  /\ HasId(menu_items_master_list, call.item_id)

\* C6: reset_menu_to_master makes the working menu equal to the master menu
\* and leaves the master menu and the agents alone; a second reset directly
\* after the first changes nothing.
C6_ResetIdempotent ==
  [][(pc = "idle" /\ call'.op = "reset_menu_to_master") =>
       /\ current_menu_items' = menu_items_master_list'
       /\ menu_items_master_list' = menu_items_master_list
       /\ agents' = agents
       /\ (call.op = "reset_menu_to_master" =>
             UNCHANGED <<current_menu_items, menu_items_master_list, aliased>>)
    ]_vars

\* C6 witness: a reset has returned on an engine whose working menu had been
\* written to.
C6_Witness ==
  /\ Returned("reset_menu_to_master")
  /\ ~aliased
  /\ menu_items_master_list # constructed_menu

\* C7: for every choice list, the empty one too, demand_per_item and
\* revenue_per_item of analyze_results have exactly the names of the working
\* menu as keys, and a name no choice refers to maps to 0 in both.
C7_AggregateCoversWorkingMenu ==
  Returned("analyze_results") =>
    LET names == {current_menu_items[i].name : i \in 1..Len(current_menu_items)}
        referred == {call.choices[k].chosen_item_name : k \in 1..Len(call.choices)}
    IN /\ DOMAIN ret.val.demand_per_item = names
       /\ DOMAIN ret.val.revenue_per_item = names
       /\ \A n \in names \ referred :
            ret.val.demand_per_item[n] = 0 /\ ret.val.revenue_per_item[n] = 0

\* C7 witness: a non-empty choice list was aggregated on a menu with a name
\* that no choice refers to.
C7_Witness ==
  /\ Returned("analyze_results")
  /\ call.choices # <<>>
  /\ \E i \in 1..Len(current_menu_items) :
       \A k \in 1..Len(call.choices) :
         call.choices[k].chosen_item_name # current_menu_items[i].name

RECURSIVE SumValues(_, _)
SumValues(f, S) ==
  IF S = {} THEN 0
  ELSE LET x == CHOOSE x \in S : TRUE IN f[x] + SumValues(f, S \ {x})

TotalsMatchChoices ==
  /\ ret.val.total_items_sold = Len(call.choices)
  /\ ret.val.total_revenue =
       SumSeq([k \in 1..Len(call.choices) |-> call.choices[k].item_price_at_purchase])
PerItemSumsMatchTotals ==
  /\ SumValues(ret.val.revenue_per_item, DOMAIN ret.val.revenue_per_item)
       = ret.val.total_revenue
  /\ SumValues(ret.val.demand_per_item, DOMAIN ret.val.demand_per_item)
       = ret.val.total_items_sold

\* C8, as stated: for all choice lists, revenue_per_item sums to
\* total_revenue and demand_per_item to total_items_sold, which are the sum
\* of the records' prices and the number of records.
C8_SumsMatchForAllChoiceLists ==
  Returned("analyze_results") => (TotalsMatchChoices /\ PerItemSumsMatchTotals)

\* C8, amended: total_items_sold is the number of records and total_revenue
\* the sum of their prices for all choice lists; the per-item mappings sum to
\* those totals for the choice lists all of whose records name an item of
\* the working menu.
C8_SumsMatchForChoicesOfTheMenu ==
  Returned("analyze_results") =>
    /\ TotalsMatchChoices
    /\ (\A k \in 1..Len(call.choices) :
          \E i \in 1..Len(current_menu_items) :
            current_menu_items[i].name = call.choices[k].chosen_item_name)
       => PerItemSumsMatchTotals

\* C8 witness: two records that name an item of the working menu were
\* aggregated.
C8_Witness ==
  /\ Returned("analyze_results")
  /\ Len(call.choices) >= 2
  /\ \A k \in 1..Len(call.choices) :
       \E i \in 1..Len(current_menu_items) :
         current_menu_items[i].name = call.choices[k].chosen_item_name
  /\ ret.val.total_revenue > 0

\* The requested changes that are not 0 and give a price that is not
\* negative, in input order.
RECURSIVE KeptChanges(_, _)
KeptChanges(pcts, base_price) ==
  IF pcts = <<>> THEN <<>>
  ELSE (IF Head(pcts) # 0 /\ RoundedPrice(base_price, Head(pcts)) >= 0
        THEN <<Head(pcts)>> ELSE <<>>) \o KeptChanges(Tail(pcts), base_price)

\* C9: for an id of the master menu run_ped_simulation_set returns the
\* baseline point first (is_baseline, change 0, the master price) and then
\* one point that is no baseline for every requested change that is not 0
\* and gives no negative price, in input order; for another id it returns
\* null.
C9_PedSweepPoints ==
  Returned("run_ped_simulation_set") =>
    IF ~HasId(menu_items_master_list, call.item_id) THEN ret.kind = "none"
    ELSE LET b == CHOOSE i \in 1..Len(menu_items_master_list) :
                    /\ menu_items_master_list[i].id = call.item_id
                    /\ \A j \in 1..(i - 1) : menu_items_master_list[j].id # call.item_id
             kept == KeptChanges(call.pcts, menu_items_master_list[b].price)
         IN /\ ret.kind = "points"
            /\ Len(ret.val) = 1 + Len(kept)
            /\ ret.val[1].is_baseline
            /\ ret.val[1].percentage_change = 0
            /\ ret.val[1].price = menu_items_master_list[b].price
            /\ \A k \in 1..Len(kept) :
                 /\ ~ret.val[k + 1].is_baseline
                 /\ ret.val[k + 1].percentage_change = kept[k]

\* C9 witness: a sweep whose first change gives a negative price and whose
\* second change is valid has returned the baseline and one more point.
C9_Witness ==
  /\ Returned("run_ped_simulation_set")
  /\ call.pcts = <<-150, 50>>
  /\ ret.kind = "points"
  /\ Len(ret.val) = 2
  /\ ret.val[2].percentage_change = 50

\* C10: run_xed_simulation_set returns null if one of the two ids is not in
\* the master menu, if the two ids are the same, or if the changed price of
\* the affecting item is negative; otherwise it returns a sample whose
\* p_affecting_base is the affecting item's master price and whose
\* p_affecting_scenario is the changed price.
C10_XedPairResult ==
  Returned("run_xed_simulation_set") =>
    IF \/ ~HasId(menu_items_master_list, call.target_id)
       \/ ~HasId(menu_items_master_list, call.affecting_id)
       \/ call.target_id = call.affecting_id
    THEN ret.kind = "none"
    ELSE LET a == CHOOSE i \in 1..Len(menu_items_master_list) :
                    /\ menu_items_master_list[i].id = call.affecting_id
                    /\ \A j \in 1..(i - 1) :
                         menu_items_master_list[j].id # call.affecting_id
             changed == RoundedPrice(menu_items_master_list[a].price, call.pct)
         IN IF changed < 0 THEN ret.kind = "none"
            ELSE /\ ret.kind = "sample"
                 /\ ret.val.p_affecting_base = menu_items_master_list[a].price
                 /\ ret.val.p_affecting_scenario = changed

\* C10 witness: a sample with a changed price has been returned.
C10_Witness ==
  /\ Returned("run_xed_simulation_set")
  /\ ret.kind = "sample"
  /\ ret.val.p_affecting_scenario # ret.val.p_affecting_base

\* ============================================================ construction
\* What a caller may hand to SimulationEngine(menu_items): a Python value
\* that is a list or not, of values that are dicts or not, with some of the
\* keys id, name and price.  A price is a Num or NotANumber.
RawItem(item) ==
  [dict |-> TRUE,
   fields |-> [id |-> item.id, name |-> item.name, price |-> Num(item.price)]]
NotADict == [dict |-> FALSE, fields |-> <<>>]
WithoutId == [dict |-> TRUE, fields |-> [name |-> "A", price |-> Num(2)]]
WithoutName == [dict |-> TRUE, fields |-> [id |-> "a", price |-> Num(2)]]
WithoutPrice == [dict |-> TRUE, fields |-> [id |-> "a", name |-> "A"]]
NegativePrice ==
  [dict |-> TRUE, fields |-> [id |-> "a", name |-> "A", price |-> Num(-1)]]
NonNumericPrice ==
  [dict |-> TRUE, fields |-> [id |-> "a", name |-> "A", price |-> NotANumber]]
BadItems ==
  {NotADict, WithoutId, WithoutName, WithoutPrice, NegativePrice, NonNumericPrice}
RawList(items) == [list |-> TRUE, items |-> items]
NotAList == [list |-> FALSE, items |-> <<>>]
CtorArgs ==
  {RawList([i \in 1..Len(menu) |-> RawItem(menu[i])]) : menu \in Menus}
  \cup {RawList(<<bad>>) : bad \in BadItems}
  \cup {RawList(<<RawItem(ItemB), bad>>) : bad \in BadItems}
  \cup {NotAList}

\* Mutant of _validate_menu_items: the price is not looked at.
_validate_menu_items_PriceUnchecked(menu_items) ==
  IF ~menu_items.list THEN [ok |-> FALSE, menu |-> <<>>]
  ELSE IF \E i \in 1..Len(menu_items.items) :
            \/ ~menu_items.items[i].dict
            \/ ~({"id", "name", "price"} \subseteq DOMAIN menu_items.items[i].fields)
       THEN [ok |-> FALSE, menu |-> <<>>]
       ELSE [ok |-> TRUE,
             menu |-> [i \in 1..Len(menu_items.items) |->
                         [id |-> menu_items.items[i].fields.id,
                          name |-> menu_items.items[i].fields.name,
                          price |-> menu_items.items[i].fields.price.val]]]

\* SimulationEngine._validate_menu_items: raises ValueError (ok = FALSE) or
\* returns copies of the items.
_validate_menu_items(menu_items) ==
  IF ~menu_items.list THEN [ok |-> FALSE, menu |-> <<>>]
  ELSE IF \E i \in 1..Len(menu_items.items) :
            \/ ~menu_items.items[i].dict
            \/ ~({"id", "name", "price"} \subseteq DOMAIN menu_items.items[i].fields)
            \/ ~menu_items.items[i].fields.price.num
            \/ menu_items.items[i].fields.price.val < 0
       THEN [ok |-> FALSE, menu |-> <<>>]
       ELSE [ok |-> TRUE,
             menu |-> [i \in 1..Len(menu_items.items) |->
                         [id |-> menu_items.items[i].fields.id,
                          name |-> menu_items.items[i].fields.name,
                          price |-> menu_items.items[i].fields.price.val]]]

\* Before SimulationEngine(...) is called: there is no engine.
NoEngine ==
  /\ constructed_menu = <<>>
  /\ menu_items_master_list = <<>>
  /\ current_menu_items = <<>>
  /\ aliased = FALSE
  /\ agents = <<>>
  /\ pc = "new"
  /\ frame = NoFrame
  /\ call = [op |-> "none", steps |-> 0]
  /\ ret = None

\* SimulationEngine(menu_items): __init__ with _validate_menu_items.  The
\* ValueError leaves __init__ at line 22, before any attribute is set.
Construct ==
  \E menu_items \in CtorArgs :
    LET v == _validate_menu_items(menu_items)
    IN /\ pc = "new"
       /\ call' = [op |-> "__init__", menu_items |-> menu_items, steps |-> 0]
       /\ UNCHANGED frame
       /\ IF ~v.ok
          THEN /\ pc' = "failed"
               /\ ret' = [kind |-> "ValueError"]
               /\ UNCHANGED <<constructed_menu, menu_items_master_list,
                              current_menu_items, aliased, agents>>
          ELSE \E budgets \in [1..NumAgents -> Budgets],
                  sens \in [1..NumAgents -> Sensitivities],
                  draws \in [1..NumAgents -> [AllItemIds(v.menu) -> GeneratedPrefs]] :
                 /\ pc' = "idle"
                 /\ ret' = None
                 /\ constructed_menu' = v.menu
                 /\ menu_items_master_list' = v.menu
                 /\ current_menu_items' = v.menu
                 /\ aliased' = TRUE
                 /\ agents' = [i \in 1..NumAgents |->
                                 NewAgent(i - 1, budgets[i], sens[i],
                                          AllItemIds(v.menu), draws[i])]

\* The engine from before its construction on.
SpecCtor == NoEngine /\ [][Construct \/ Next]_vars

\* C11: construction fails with a ValueError, and no engine and no agent is
\* created, when the menu is no list, or an item is no dict, lacks id, name
\* or price, or has a price that is no number or negative.
C11_InvalidMenuRejected ==
  [][(pc = "new" /\ pc' # "new") =>
       LET arg == call'.menu_items
           invalid ==
             \/ ~arg.list
             \/ \E i \in 1..Len(arg.items) :
                  \/ ~arg.items[i].dict
                  \/ "id" \notin DOMAIN arg.items[i].fields
                  \/ "name" \notin DOMAIN arg.items[i].fields
                  \/ "price" \notin DOMAIN arg.items[i].fields
                  \/ ~arg.items[i].fields.price.num
                  \/ arg.items[i].fields.price.val < 0
       IN invalid =>
            /\ pc' = "failed"
            /\ ret'.kind = "ValueError"
            /\ agents' = <<>>
            /\ menu_items_master_list' = <<>>
            /\ current_menu_items' = <<>>
    ]_vars

\* C11 witness: construction has failed on a list whose second item has a
\* negative price.
C11_Witness ==
  /\ pc = "failed"
  /\ call.menu_items = RawList(<<RawItem(ItemB), NegativePrice>>)
  /\ agents = <<>>

\* C12: construction fails when two items of the input menu have the same
\* id, and the master menu of every constructed engine has pairwise
\* distinct ids.
C12_DuplicateIdsRejected ==
  /\ (call.op = "__init__" /\ call.menu_items.list /\ pc # "failed") =>
       \A i, j \in 1..Len(call.menu_items.items) :
         (i # j /\ call.menu_items.items[i].dict /\ call.menu_items.items[j].dict
            /\ "id" \in DOMAIN call.menu_items.items[i].fields
            /\ "id" \in DOMAIN call.menu_items.items[j].fields)
         => call.menu_items.items[i].fields.id # call.menu_items.items[j].fields.id
  /\ pc \in {"idle", "ped", "xed"} =>
       \A i, j \in 1..Len(menu_items_master_list) :
         i # j => menu_items_master_list[i].id # menu_items_master_list[j].id

\* =========================================================== CustomerAgent
\* One CustomerAgent used directly, as the tests of TestCustomerAgent do.
\* The agent is agents[1], the menu of the last choose_items call is
\* current_menu_items; there is no engine.
Burger == [id |-> "a", name |-> "A", price |-> 4]
Pizza == [id |-> "b", name |-> "B", price |-> 4]
Salad == [id |-> "c", name |-> "C", price |-> 1]
Water == [id |-> "d", name |-> "D", price |-> 0]
AgentMenus == {<<>>, <<Burger, Pizza, Salad>>, <<Burger, Water, Salad>>}
\* An item dict without the key 'price'.
Unpriced == [id |-> "a", name |-> "A"]
AgentItems == {Burger, Pizza, Salad, Water, Unpriced}
\* preferences given to CustomerAgent(...): none, or scores in halves.
NoPreferences == <<>>
SeededPreferences ==
  {NoPreferences,
   [i \in {"a", "b", "c"} |-> IF i = "c" THEN 1 ELSE 2],
   [i \in {"a", "c"} |-> IF i = "c" THEN 1 ELSE 0]}
\* budget_range = (b, b) and price_sensitivity given to CustomerAgent(...).
AgentBudgets == {0, 3, 4, 5, 9}
AgentSensitivities == {0, 1}
\* all_item_ids given to generate_random_preferences and the scores
\* random.uniform(0.1, 1.0) gives, in halves.
AllItemIdsArgs == {{}, {"a", "b", "c"}, {"a", "d"}}
UniformPrefs == {1, 2}
\* max_items_to_choose given to choose_items.
MaxItemsToChooseArgs == 0..3

\* CustomerAgent(agent_id, preferences, budget_range, price_sensitivity).
InitAgent ==
  \E budget \in AgentBudgets, sensitivity \in AgentSensitivities,
     preferences \in SeededPreferences :
    /\ agents = <<[agent_id |-> 0, budget |-> budget,
                   price_sensitivity |-> sensitivity,
                   preferences |-> preferences, chosen_items |-> <<>>]>>
    /\ current_menu_items = <<>>
    /\ constructed_menu = <<>>
    /\ menu_items_master_list = <<>>
    /\ aliased = FALSE
    /\ pc = "agent"
    /\ frame = NoFrame
    /\ call = [op |-> "__init__", steps |-> 0]
    /\ ret = None

\* agent.generate_random_preferences(all_item_ids)
AgentGeneratePreferences ==
  \E all_item_ids \in AllItemIdsArgs :
    \E draw \in [all_item_ids -> UniformPrefs] :
      /\ pc = "agent"
      /\ agents' = <<generate_random_preferences(agents[1], all_item_ids, draw)>>
      /\ call' = [op |-> "generate_random_preferences",
                  all_item_ids |-> all_item_ids, steps |-> 0]
      /\ ret' = None
      /\ UNCHANGED <<constructed_menu, menu_items_master_list, current_menu_items,
                     aliased, pc, frame>>

\* agent._calculate_utility(item, menu_items)
AgentCalculateUtility ==
  \E item \in AgentItems :
    /\ pc = "agent"
    /\ call' = [op |-> "_calculate_utility", item |-> item, steps |-> 0]
    /\ ret' = [kind |-> "utility", val |-> _calculate_utility(agents[1], item)]
    /\ UNCHANGED <<constructed_menu, menu_items_master_list, current_menu_items,
                   aliased, agents, pc, frame>>

\* agent.choose_items(menu_items, max_items_to_choose)
AgentChooseItems ==
  \E menu \in AgentMenus, max_items_to_choose \in MaxItemsToChooseArgs :
    LET after == choose_items(agents[1], menu, max_items_to_choose,
                              [d \in AllItemIds(menu) |-> CHOOSE v \in LazyPrefs : TRUE])
    IN /\ pc = "agent"
       /\ agents' = <<after>>
       /\ current_menu_items' = menu
       /\ call' = [op |-> "choose_items", max_items_to_choose |-> max_items_to_choose,
                   steps |-> 0]
       /\ ret' = [kind |-> "basket", val |-> after.chosen_items]
       /\ UNCHANGED <<constructed_menu, menu_items_master_list, aliased, pc, frame>>

NextAgent ==
  \/ AgentGeneratePreferences
  \/ AgentCalculateUtility
  \/ AgentChooseItems

SpecAgent == InitAgent /\ [][NextAgent]_vars

\* The agent, the menu and the basket of the choose_items call that has
\* just returned.
ChoseItems == pc = "agent" /\ call.op = "choose_items"
Prices(menu) == [i \in 1..Len(menu) |-> menu[i].price]
\* The candidates of lines 108-117 in the order the loop reads them.
Candidates ==
  SortByUtility(agents[1], current_menu_items,
                PotentialChoices(agents[1], current_menu_items, agents[1].budget))
BasketIsSafe ==
  /\ Len(ret.val) <= call.max_items_to_choose
  /\ \A k, l \in 1..Len(ret.val) : k # l => ret.val[k] # ret.val[l]
  /\ \A k \in 1..Len(ret.val) :
       FracPos(_calculate_utility(agents[1], current_menu_items[ret.val[k]]))
  /\ SumValues(Prices(current_menu_items), {ret.val[k] : k \in 1..Len(ret.val)})
       <= agents[1].budget

\* C13, as stated: the basket has at most max_items items, no menu entry
\* twice, only items of positive utility and a total price within the
\* budget; if max_items items of positive utility are within the budget
\* together, it has exactly max_items items.
C13_BasketFullWhenAffordable ==
  ChoseItems =>
    /\ BasketIsSafe
    /\ (\E S \in SUBSET (1..Len(current_menu_items)) :
          /\ Cardinality(S) = call.max_items_to_choose
          /\ \A i \in S : FracPos(_calculate_utility(agents[1], current_menu_items[i]))
          /\ SumValues(Prices(current_menu_items), S) <= agents[1].budget)
       => Len(ret.val) = call.max_items_to_choose

\* C13, amended: the basket is safe as above; it has exactly max_items
\* items if the budget is greater than the total price of the max_items
\* candidates of highest utility (prices are not negative).
C13_BasketFullWhenTopAffordable ==
  ChoseItems =>
    /\ BasketIsSafe
    /\ (/\ Len(Candidates) >= call.max_items_to_choose
        /\ SumSeq([k \in 1..call.max_items_to_choose |->
                     current_menu_items[Candidates[k]].price]) < agents[1].budget)
       => Len(ret.val) = call.max_items_to_choose

\* C13 witness: a basket of two out of three candidates, filled to
\* max_items.
C13_Witness ==
  /\ ChoseItems
  /\ call.max_items_to_choose = 2
  /\ Len(Candidates) = 3
  /\ SumSeq([k \in 1..2 |-> current_menu_items[Candidates[k]].price]) < agents[1].budget
  /\ Len(ret.val) = 2

\* C14: generate_random_preferences on an empty mapping gives the mapping
\* the keys all_item_ids with scores in [0.1, 1.0] and changes nothing else;
\* on a mapping with an entry it changes nothing, ids without an entry
\* included.
C14_GenerateOnlyWhenEmpty ==
  [][(pc = "agent" /\ call'.op = "generate_random_preferences") =>
       IF DOMAIN agents[1].preferences = {}
       THEN /\ DOMAIN agents'[1].preferences = call'.all_item_ids
            /\ \A i \in call'.all_item_ids :
                 /\ 5 * agents'[1].preferences[i] >= 1
                 /\ agents'[1].preferences[i] <= 2
            /\ agents' = <<[agents[1] EXCEPT !.preferences = agents'[1].preferences]>>
       ELSE agents' = agents
    ]_vars

\* C14 witness: the call has returned on an agent whose mapping lacks an id
\* of all_item_ids, so it was not empty and was left alone.
C14_Witness ==
  /\ pc = "agent"
  /\ call.op = "generate_random_preferences"
  /\ DOMAIN agents[1].preferences # {}
  /\ call.all_item_ids \ DOMAIN agents[1].preferences # {}

\* C18: for price_sensitivity 1, a preference entry and a positive price,
\* _calculate_utility returns preference / price.
C18_UtilityIsPreferenceOverPrice ==
  (/\ pc = "agent"
   /\ call.op = "_calculate_utility"
   /\ agents[1].price_sensitivity = 1
   /\ call.item.id \in DOMAIN agents[1].preferences
   /\ "price" \in DOMAIN call.item
   /\ call.item.price > 0)
  => ret.val[1] * 2 * call.item.price
       = agents[1].preferences[call.item.id] * ret.val[2]

\* The state of the loop of lines 120-129 when it reaches candidate number
\* i, told from the basket: the candidates before i that are in the basket,
\* what they cost, and whether line 128 has ended the loop before i.
InBasket(i) == \E k \in 1..Len(ret.val) : ret.val[k] = Candidates[i]
PickedBefore(i) == {j \in 1..(i - 1) : InBasket(j)}
RemainingAt(i) ==
  agents[1].budget
    - SumValues([j \in 1..Len(Candidates) |-> current_menu_items[Candidates[j]].price],
                PickedBefore(i))
EndedBefore(i) ==
  \E j \in 2..i : \/ Cardinality(PickedBefore(j)) >= call.max_items_to_choose
                  \/ RemainingAt(j) <= 0

\* C20: a candidate is in the basket exactly if, when the loop reaches it,
\* the loop has not ended (max_items reached or the remaining budget <= 0),
\* fewer than max_items are chosen and its price is within the remaining
\* budget; a candidate beyond the remaining budget is passed over and the
\* candidates after it are still read.
C20_UnaffordableCandidateSkipped ==
  ChoseItems =>
    /\ \A k \in 1..Len(ret.val) : \E i \in 1..Len(Candidates) : Candidates[i] = ret.val[k]
    /\ \A i \in 1..Len(Candidates) :
         InBasket(i) <=>
           /\ ~EndedBefore(i)
           /\ Cardinality(PickedBefore(i)) < call.max_items_to_choose
           /\ current_menu_items[Candidates[i]].price <= RemainingAt(i)

\* C20 witness: the second candidate was beyond the remaining budget and
\* the third was chosen.
C20_Witness ==
  /\ ChoseItems
  /\ Len(Candidates) = 3
  /\ InBasket(1) /\ ~InBasket(2) /\ InBasket(3)
  /\ current_menu_items[Candidates[2]].price > RemainingAt(2)

\* ==================================================== elasticity calculator
\* simulation/elasticity_calculator.py: calculate_arc_elasticity and
\* calculate_ped_from_simulation_data, pure functions.  A real number is a
\* fraction [num, den] with den > 0; the other values an elasticity can
\* take are None and the two infinities.
\* Longest list of points given to calculate_ped_from_simulation_data.
MaxPoints == 3

Real(num, den) ==
  IF den < 0 THEN [kind |-> "real", num |-> -num, den |-> -den]
  ELSE [kind |-> "real", num |-> num, den |-> den]
Undefined == [kind |-> "undefined"]
PlusInfinity == [kind |-> "inf", sign |-> 1]
MinusInfinity == [kind |-> "inf", sign |-> -1]
\* a / b for fractions a and b, b not 0.
RealDiv(a, b) == Real(a.num * b.den, a.den * b.num)
RealIsZero(a) == a.num = 0

\* Mutant of calculate_arc_elasticity: the prices are compared before the
\* averages are looked at.
calculate_arc_elasticity_EqualPricesFirst(q1, q2, p1, p2) ==
  IF p1 = p2 THEN (IF q1 = q2 THEN Real(0, 1)
                   ELSE IF q2 > q1 THEN PlusInfinity ELSE MinusInfinity)
  ELSE IF q1 + q2 = 0 \/ p1 + p2 = 0 THEN Undefined
  ELSE RealDiv(RealDiv(Real(q2 - q1, 1), Real(q1 + q2, 2)),
               RealDiv(Real(p2 - p1, 1), Real(p1 + p2, 2)))

\* calculate_arc_elasticity(q1, q2, p1, p2): the percentage change of the
\* quantity over that of the price, both taken on the average.
calculate_arc_elasticity(q1, q2, p1, p2) ==
  LET avg_q == Real(q1 + q2, 2)
      avg_p == Real(p1 + p2, 2)
  IN IF RealIsZero(avg_q) \/ RealIsZero(avg_p) THEN Undefined
     ELSE IF p1 = p2 /\ q1 = q2 THEN Real(0, 1)
     ELSE IF p1 = p2 THEN (IF q2 > q1 THEN PlusInfinity ELSE MinusInfinity)
     ELSE RealDiv(RealDiv(Real(q2 - q1, 1), avg_q), RealDiv(Real(p2 - p1, 1), avg_p))

\* A point of a sweep as run_ped_simulation_set builds it; is_baseline is
\* "true", "false" or "absent" (the key is not in the dict).
PedPoint(price, demand, percentage_change, is_baseline) ==
  [price |-> price, demand |-> demand, percentage_change |-> percentage_change,
   is_baseline |-> is_baseline]
\* The position of the baseline: the first point flagged is_baseline, else
\* the first with percentage_change 0, else 0.
FindBaseline(points) ==
  LET flagged == {i \in 1..Len(points) : points[i].is_baseline = "true"}
      unchanged == {i \in 1..Len(points) : points[i].percentage_change = 0}
  IN IF flagged # {} THEN CHOOSE i \in flagged : \A j \in flagged : i <= j
     ELSE IF unchanged # {} THEN CHOOSE i \in unchanged : \A j \in unchanged : i <= j
     ELSE 0
PedResult(base, point, ped_value) ==
  [percentage_change_price |-> point.percentage_change,
   original_price |-> base.price, new_price |-> point.price,
   original_demand |-> base.demand, new_demand |-> point.demand,
   ped_value |-> ped_value]
RECURSIVE PedResultsFrom(_, _, _)
PedResultsFrom(points, b, i) ==
  IF i > Len(points) THEN <<>>
  ELSE (IF i = b THEN <<>>
        ELSE <<PedResult(points[b], points[i],
                         calculate_arc_elasticity(points[b].demand, points[i].demand,
                                                  points[b].price, points[i].price))>>)
       \o PedResultsFrom(points, b, i + 1)

\* Mutant of calculate_ped_from_simulation_data: an undefined elasticity is
\* reported as 0.
calculate_ped_from_simulation_data_ZeroForUndefined(points) ==
  IF Len(points) < 2 \/ FindBaseline(points) = 0 THEN <<>>
  ELSE LET r == PedResultsFrom(points, FindBaseline(points), 1)
       IN [k \in 1..Len(r) |->
             IF r[k].ped_value = Undefined
             THEN [r[k] EXCEPT !.ped_value = Real(0, 1)] ELSE r[k]]

\* calculate_ped_from_simulation_data(points).
calculate_ped_from_simulation_data(points) ==
  IF Len(points) < 2 \/ FindBaseline(points) = 0 THEN <<>>
  ELSE PedResultsFrom(points, FindBaseline(points), 1)

\* The quantities and prices given to calculate_arc_elasticity (those of
\* test_calculate_arc_elasticity, and a negative one).
QuantityArgs == {-20, 0, 20, 25, 60, 100}
PriceQuoteArgs == {0, 5, 6, 10, 12}
\* The points given to calculate_ped_from_simulation_data.
PedPointArgs ==
  {PedPoint(10, 100, 0, "true"), PedPoint(10, 0, 0, "true"),
   PedPoint(10, 100, 0, "absent"), PedPoint(12, 60, 20, "false"),
   PedPoint(12, 0, 20, "absent")}

\* No engine and no agent: the functions are called on their own, each
\* behaviour being one call.
InitElasticity ==
  /\ constructed_menu = <<>>
  /\ menu_items_master_list = <<>>
  /\ current_menu_items = <<>>
  /\ aliased = FALSE
  /\ agents = <<>>
  /\ pc = "calculator"
  /\ frame = NoFrame
  /\ call = [op |-> "none", steps |-> 0]
  /\ ret = None

ArcElasticity ==
  \E q1, q2 \in QuantityArgs, p1, p2 \in PriceQuoteArgs :
    /\ pc = "calculator"
    /\ call.op = "none"
    /\ call' = [op |-> "calculate_arc_elasticity",
                q1 |-> q1, q2 |-> q2, p1 |-> p1, p2 |-> p2, steps |-> 0]
    /\ ret' = calculate_arc_elasticity(q1, q2, p1, p2)
    /\ UNCHANGED <<constructed_menu, menu_items_master_list, current_menu_items,
                   aliased, agents, pc, frame>>

PedFromSimulationData ==
  \E points \in SeqsUpTo(PedPointArgs, MaxPoints) :
    /\ pc = "calculator"
    /\ call.op = "none"
    /\ call' = [op |-> "calculate_ped_from_simulation_data", points |-> points,
                steps |-> 0]
    /\ ret' = [kind |-> "results", val |-> calculate_ped_from_simulation_data(points)]
    /\ UNCHANGED <<constructed_menu, menu_items_master_list, current_menu_items,
                   aliased, agents, pc, frame>>

NextElasticity == ArcElasticity \/ PedFromSimulationData

SpecElasticity == InitElasticity /\ [][NextElasticity]_vars

RECURSIVE OtherPoints(_, _, _)
OtherPoints(points, b, i) ==
  IF i > Len(points) THEN <<>>
  ELSE (IF i = b THEN <<>> ELSE <<points[i]>>) \o OtherPoints(points, b, i + 1)

\* C16: calculate_ped_from_simulation_data returns the empty list for fewer
\* than 2 points or no baseline (the point flagged is_baseline, else the
\* point with percentage_change 0); otherwise one result per other point, in
\* input order, with the baseline's price and demand as original_price and
\* original_demand and the arc elasticity from the baseline to the point as
\* ped_value, None and not 0 where that is undefined.
C16_PedFromSweep ==
  (pc = "calculator" /\ call.op = "calculate_ped_from_simulation_data") =>
    LET points == call.points
        flagged == {i \in 1..Len(points) : points[i].is_baseline = "true"}
        unchanged == {i \in 1..Len(points) : points[i].percentage_change = 0}
        candidates == IF flagged # {} THEN flagged ELSE unchanged
    IN IF Len(points) < 2 \/ candidates = {} THEN ret.val = <<>>
       ELSE LET b == CHOOSE i \in candidates : \A j \in candidates : i <= j
                others == OtherPoints(points, b, 1)
            IN /\ Len(ret.val) = Len(others)
               /\ \A k \in 1..Len(others) :
                    /\ ret.val[k].original_price = points[b].price
                    /\ ret.val[k].original_demand = points[b].demand
                    /\ ret.val[k].new_price = others[k].price
                    /\ ret.val[k].new_demand = others[k].demand
                    /\ ret.val[k].ped_value =
                         calculate_arc_elasticity(points[b].demand, others[k].demand,
                                                  points[b].price, others[k].price)
                    /\ (points[b].demand + others[k].demand = 0
                          => ret.val[k].ped_value.kind = "undefined")

\* C16 witness: a baseline found by its percentage_change and two other
\* points, one of them with an undefined elasticity.
C16_Witness ==
  /\ pc = "calculator"
  /\ call.op = "calculate_ped_from_simulation_data"
  /\ call.points = <<PedPoint(12, 60, 20, "false"), PedPoint(10, 0, 0, "true"),
                     PedPoint(12, 0, 20, "absent")>>
  /\ Len(ret.val) = 2
  /\ ret.val[1].ped_value.kind = "real"
  /\ ret.val[2].ped_value.kind = "undefined"

\* ================================================= two scenarios, compared
\* test_run_price_scenario: run_price_scenario at the master price of an
\* item and then at a higher price, on one engine, and the two demands of
\* the item compared.
CheapA == [id |-> "a", name |-> "A", price |-> 1]
ScenarioMenus ==
  {<<ItemA, ItemB>>, <<CheapA, ItemB>>, <<ItemB, CheapA>>, <<ItemC, ItemA, ItemB>>}
\* By how much the second call raises the price.
Raises == {1, 2, 3}

\* Mutant of run_price_scenario: the step runs before the update, on the
\* master prices.
run_price_scenario_StepBeforeUpdate(m, ags, item_id, new_price, budgets) ==
  LET m1 == reset_menu_to_master(m)
      step == run_simulation_step(ags, m1.working, DefaultMaxItems, budgets)
      upd == update_menu_item_price(m1, item_id, new_price)
  IN IF ~upd[1] THEN <<None, reset_menu_to_master(upd[2]), ags>>
     ELSE <<[kind |-> "analysis", val |-> analyze_results(upd[2].working, step[1])],
            reset_menu_to_master(upd[2]), step[2]>>

\* SimulationEngine.run_price_scenario as a function of the engine:
\* <<returned, menus afterwards, agents afterwards>>.
run_price_scenario(m, ags, item_id, new_price, budgets) ==
  LET m1 == reset_menu_to_master(m)
      upd == update_menu_item_price(m1, item_id, new_price)
      step == run_simulation_step(ags, upd[2].working, DefaultMaxItems, budgets)
  IN IF ~upd[1] THEN <<None, reset_menu_to_master(upd[2]), ags>>
     ELSE <<[kind |-> "analysis", val |-> analyze_results(upd[2].working, step[1])],
            reset_menu_to_master(upd[2]), step[2]>>

\* SimulationEngine(menu_items, num_agents, agent_budget_range, ...).
InitScenario ==
  \E menu \in ScenarioMenus :
    \E budgets \in [1..NumAgents -> Budgets],
       sens \in [1..NumAgents -> Sensitivities],
       draws \in [1..NumAgents -> [AllItemIds(menu) -> GeneratedPrefs]] :
      /\ constructed_menu = menu
      /\ menu_items_master_list = menu
      /\ current_menu_items = menu
      /\ aliased = TRUE
      /\ agents = [i \in 1..NumAgents |->
                     NewAgent(i - 1, budgets[i], sens[i], AllItemIds(menu), draws[i])]
      /\ pc = "idle"
      /\ frame = NoFrame
      /\ call = [op |-> "__init__", steps |-> 0]
      /\ ret = None

\* baseline_analysis = engine.run_price_scenario(item_id, master price)
ScenarioAtMasterPrice ==
  \E item_id \in Ids, budgets \in BudgetDraws :
    LET b == FindFirst(menu_items_master_list, item_id)
        r == run_price_scenario(EngineMenus, agents, item_id,
                                Num(menu_items_master_list[b].price), budgets)
    IN /\ pc = "idle"
       /\ call.op = "__init__"
       /\ b # 0
       /\ SetMenus(r[2])
       /\ agents' = r[3]
       /\ ret' = r[1]
       /\ call' = [op |-> "run_price_scenario", item_id |-> item_id,
                   new_price |-> Num(menu_items_master_list[b].price), steps |-> 1]
       /\ frame' = [item_name |-> menu_items_master_list[b].name,
                    baseline_analysis |-> r[1].val]
       /\ UNCHANGED <<constructed_menu, pc>>

\* scenario_analysis = engine.run_price_scenario(item_id, a higher price)
ScenarioAtRaisedPrice ==
  \E raise \in Raises, budgets \in BudgetDraws :
    LET b == FindFirst(menu_items_master_list, call.item_id)
        new_price == Num(menu_items_master_list[b].price + raise)
        r == run_price_scenario(EngineMenus, agents, call.item_id, new_price, budgets)
    IN /\ pc = "idle"
       /\ call.op = "run_price_scenario"
       /\ call.steps = 1
       /\ SetMenus(r[2])
       /\ agents' = r[3]
       /\ ret' = r[1]
       /\ call' = [call EXCEPT !.new_price = new_price, !.steps = 2]
       /\ UNCHANGED <<constructed_menu, pc, frame>>

NextScenario == ScenarioAtMasterPrice \/ ScenarioAtRaisedPrice

SpecScenario == InitScenario /\ [][NextScenario]_vars

\* C17: the demand of the item in the run at the raised price is at most
\* its demand in the run at the master price.
C17_RaisedPriceDemandNotHigher ==
  (pc = "idle" /\ call.op = "run_price_scenario" /\ call.steps = 2) =>
    DictGet(ret.val.demand_per_item, frame.item_name)
      <= DictGet(frame.baseline_analysis.demand_per_item, frame.item_name)

\* ================================================ calculate-elasticities API
\* api/routers/simulation_api.py, calculate_elasticities_api, the PED
\* branch, on the engine of app.state.
\* The percentage changes of a request, in percent.
ApiPctArgs == {-150, -50, 0, 50}

\* SimulationEngine.run_ped_simulation_set, lines 191-209, as a function:
\* the loop from element i of the list on.  st holds the menus, the agents
\* and ped_data_points, fr the locals item_id, base_price and item_name,
\* draws[i + 1] the budgets of the step of element i.
RECURSIVE PedLoopFrom(_, _, _, _, _)
PedLoopFrom(st, fr, pcts, draws, i) ==
  IF i > Len(pcts) THEN st
  ELSE LET new_price == RoundedPrice(fr.base_price, pcts[i])
           m == reset_menu_to_master(st.menus)
           upd == update_menu_item_price(m, fr.item_id, Num(new_price))
           step == run_simulation_step(st.agents, upd[2].working, DefaultMaxItems,
                                       draws[i + 1])
       IN IF pcts[i] = 0 \/ new_price < 0 THEN PedLoopFrom(st, fr, pcts, draws, i + 1)
          ELSE IF ~upd[1]
          THEN PedLoopFrom([st EXCEPT !.menus = upd[2]], fr, pcts, draws, i + 1)
          ELSE PedLoopFrom(
                 [menus |-> upd[2], agents |-> step[2],
                  points |-> Append(st.points,
                               [price |-> new_price,
                                demand |->
                                  DictGet(analyze_results(upd[2].working, step[1])
                                            .demand_per_item, fr.item_name),
                                is_baseline |-> FALSE,
                                percentage_change |-> pcts[i]])],
                 fr, pcts, draws, i + 1)

\* SimulationEngine.run_ped_simulation_set as a function of the engine:
\* what it returns, and the menus and the agents afterwards.
run_ped_simulation_set(m, ags, item_id, pcts, draws) ==
  LET b == FindFirst(m.master, item_id)
  IN IF b = 0 THEN [ret |-> None, menus |-> m, agents |-> ags]
     ELSE LET m1 == reset_menu_to_master(m)
              step == run_simulation_step(ags, m1.working, DefaultMaxItems, draws[1])
              fr == [item_id |-> item_id, base_price |-> m.master[b].price,
                     item_name |-> m.master[b].name]
              st == PedLoopFrom(
                      [menus |-> m1, agents |-> step[2],
                       points |-> <<[price |-> fr.base_price,
                                     demand |->
                                       DictGet(analyze_results(m1.working, step[1])
                                                 .demand_per_item, fr.item_name),
                                     is_baseline |-> TRUE, percentage_change |-> 0]>>],
                      fr, pcts, draws, 1)
          IN [ret |-> [kind |-> "points", val |-> st.points],
              menus |-> reset_menu_to_master(st.menus), agents |-> st.agents]

\* The dicts of ped_data_points as calculate_ped_from_simulation_data reads
\* them: the key is_baseline is always there.
SimData(points) ==
  [k \in 1..Len(points) |->
     PedPoint(points[k].price, points[k].demand, points[k].percentage_change,
              IF points[k].is_baseline THEN "true" ELSE "false")]

HttpError(status) == [kind |-> "http", status |-> status, data |-> <<>>]

\* POST /calculate-elasticities with type PED: item_id_vary and the parsed
\* ped_price_changes (the empty string parses to no float and is a 400).
ApiCalculatePed ==
  \E item_id_vary \in IdArgs, ped_price_changes \in SeqsUpTo(ApiPctArgs, MaxSweep) :
    \E draws \in [1..(Len(ped_price_changes) + 1) -> BudgetDraws] :
      LET r == run_ped_simulation_set(EngineMenus, agents, item_id_vary,
                                      ped_price_changes, draws)
          c == [op |-> "calculate_elasticities_api", item_id_vary |-> item_id_vary,
                ped_price_changes |-> ped_price_changes, steps |-> 0]
      IN /\ pc = "idle"
         /\ UNCHANGED <<constructed_menu, pc, frame>>
         /\ call' = c
         /\ IF \/ ped_price_changes = <<>>
               \/ \E k \in 1..Len(ped_price_changes) :
                    ~(-100 < ped_price_changes[k] /\ ped_price_changes[k] < 1000)
            THEN /\ ret' = HttpError(400)
                 /\ UNCHANGED <<menu_items_master_list, current_menu_items, aliased,
                                agents>>
            ELSE /\ SetMenus(r.menus)
                 /\ agents' = r.agents
                 /\ IF r.ret = None
                    THEN ret' = HttpError(404)
                    ELSE ret' = [kind |-> "http", status |-> 200,
                                 data |-> calculate_ped_from_simulation_data(
                                            SimData(r.ret.val))]

SpecApi == Init /\ [][ApiCalculatePed]_vars

\* C19: a PED request for an item of the menu with n percentage changes,
\* all valid and not 0, is answered with a data list of n + 1 entries.
C19_PedApiReturnsBaselineAndChanges ==
  (/\ pc = "idle"
   /\ call.op = "calculate_elasticities_api"
   /\ HasId(menu_items_master_list, call.item_id_vary)
   /\ call.ped_price_changes # <<>>
   /\ \A k \in 1..Len(call.ped_price_changes) :
        /\ call.ped_price_changes[k] # 0
        /\ -100 < call.ped_price_changes[k]
        /\ call.ped_price_changes[k] < 1000)
  => (ret.status = 200 /\ Len(ret.data) = Len(call.ped_price_changes) + 1)

\* ================================================ CustomerAgent, continued
\* The utility the agent gives to the item at a position of the menu of the
\* choose_items call that has just returned.
UtilityAt(i) == _calculate_utility(agents[1], current_menu_items[i])
\* The menu positions the call could afford at its start, of positive
\* utility.
AffordablePositive ==
  {i \in 1..Len(current_menu_items) :
     current_menu_items[i].price <= agents[1].budget /\ FracPos(UtilityAt(i))}

\* C21: the basket of choose_items is in order of non-increasing utility,
\* two chosen items of equal utility are in menu order, and with
\* max_items >= 1 the first chosen item has the highest utility of the menu
\* items priced within the budget with positive utility, if there is one.
C21_BasketByUtility ==
  ChoseItems =>
    /\ \A k, l \in 1..Len(ret.val) :
         k < l => /\ FracGE(UtilityAt(ret.val[k]), UtilityAt(ret.val[l]))
                  /\ FracGE(UtilityAt(ret.val[l]), UtilityAt(ret.val[k]))
                       => ret.val[k] < ret.val[l]
    /\ (call.max_items_to_choose >= 1 /\ AffordablePositive # {}) =>
         /\ Len(ret.val) >= 1
         /\ ret.val[1] \in AffordablePositive
         /\ \A i \in AffordablePositive :
              FracGE(UtilityAt(ret.val[1]), UtilityAt(i))

\* C21 witness: a basket of three, the first of higher utility than the
\* other two, which have the same utility and are in menu order.
C21_Witness ==
  /\ ChoseItems
  /\ Len(ret.val) = 3
  /\ FracGT(UtilityAt(ret.val[1]), UtilityAt(ret.val[2]))
  /\ FracGE(UtilityAt(ret.val[3]), UtilityAt(ret.val[2]))
  /\ ret.val[2] < ret.val[3]

\* One agent used directly, or the agents of an engine: every operation of
\* CustomerAgent and of SimulationEngine.
SpecAgentOrEngine == (InitAgent \/ Init) /\ [][NextAgent \/ Next]_vars

\* C22: no operation of an agent or of the engine removes or changes an
\* entry of an agent's preference mapping, and after choose_items on a menu
\* that is not empty every id of that menu has an entry, affordable or not.
C22_PreferencesOnlyGrow ==
  [][/\ Len(agents') = Len(agents)
     /\ \A i \in 1..Len(agents) :
          \A d \in DOMAIN agents[i].preferences :
            /\ d \in DOMAIN agents'[i].preferences
            /\ agents'[i].preferences[d] = agents[i].preferences[d]
     /\ (/\ call'.op \in {"choose_items", "run_simulation_step"}
         /\ current_menu_items' # <<>>) =>
          \A i \in 1..Len(agents') :
            AllItemIds(current_menu_items') \subseteq DOMAIN agents'[i].preferences
    ]_vars

\* C22 witness: choose_items has returned for an agent with no budget on a
\* menu of priced items: the seeded score of one item is as it was and an
\* item without a score has got one.
C22_Witness ==
  /\ ChoseItems
  /\ agents[1].budget = 0
  /\ current_menu_items = <<Burger, Pizza, Salad>>
  /\ ret.val = <<>>
  /\ DOMAIN agents[1].preferences = {"a", "b", "c"}
  /\ agents[1].preferences["a"] = 0
  /\ agents[1].preferences["b"] \in LazyPrefs

\* ================================================== a population of agents
\* An engine constructed with num_agents = PopulationSize, its menu
\* operations and run_simulation_step.
PopulationSize == 2
PopulationBudgetDraws == [1..PopulationSize -> Budgets]

\* SimulationEngine.__init__ with num_agents = PopulationSize.
InitPopulation ==
  \E menu \in Menus :
    \E budgets \in PopulationBudgetDraws,
       sens \in [1..PopulationSize -> Sensitivities],
       draws \in [1..PopulationSize -> [AllItemIds(menu) -> GeneratedPrefs]] :
      /\ constructed_menu = menu
      /\ menu_items_master_list = menu
      /\ current_menu_items = menu
      /\ aliased = TRUE
      /\ agents = [i \in 1..PopulationSize |->
                     NewAgent(i - 1, budgets[i], sens[i], AllItemIds(menu), draws[i])]
      /\ pc = "idle"
      /\ frame = NoFrame
      /\ call = [op |-> "__init__", steps |-> 0]
      /\ ret = None

\* engine.run_simulation_step(max_items_per_agent) on that population.
PopulationStep ==
  \E max_items \in MaxItemsArgs, budgets \in PopulationBudgetDraws :
    LET r == run_simulation_step(agents, current_menu_items, max_items, budgets)
    IN /\ pc = "idle"
       /\ agents' = r[2]
       /\ call' = [op |-> "run_simulation_step", max_items |-> max_items, steps |-> 1]
       /\ ret' = [kind |-> "choices", val |-> r[1]]
       /\ UNCHANGED <<constructed_menu, menu_items_master_list, current_menu_items,
                      aliased, pc, frame>>

NextPopulation ==
  \/ UpdateItemPrice
  \/ ResetToMaster
  \/ PopulationStep

SpecPopulation == InitPopulation /\ [][NextPopulation]_vars

\* The records of one agent among the records of a step, in their order.
RECURSIVE RecordsOfAgent(_, _)
RecordsOfAgent(records, agent_id) ==
  IF records = <<>> THEN <<>>
  ELSE (IF Head(records).agent_id = agent_id THEN <<Head(records)>> ELSE <<>>)
       \o RecordsOfAgent(Tail(records), agent_id)

\* C23: the records run_simulation_step returns are agent-major in
\* population order, the records of an agent are the items it chose in the
\* order it chose them, at most max_items_per_agent per agent and
\* num_agents * max_items_per_agent in all, and each record carries the id,
\* the name and the price its item has in the working menu of the step.
C23_RecordsAgentMajor ==
  Returned("run_simulation_step") =>
    /\ \A k, l \in 1..Len(ret.val) :
         k < l => ret.val[k].agent_id <= ret.val[l].agent_id
    /\ \A k \in 1..Len(ret.val) :
         \E i \in 1..Len(agents) : agents[i].agent_id = ret.val[k].agent_id
    /\ \A i \in 1..Len(agents) :
         LET mine == RecordsOfAgent(ret.val, agents[i].agent_id)
         IN /\ Len(mine) <= call.max_items
            /\ Len(mine) = Len(agents[i].chosen_items)
            /\ \A k \in 1..Len(mine) :
                 LET item == current_menu_items[agents[i].chosen_items[k]]
                 IN /\ mine[k].chosen_item_id = item.id
                    /\ mine[k].chosen_item_name = item.name
                    /\ mine[k].item_price_at_purchase = item.price
    /\ Len(ret.val) <= Len(agents) * call.max_items

\* C23 witness: the first agent chose two items and a later agent chose
\* one, and an item was bought at a working price that is not its master
\* price.
C23_Witness ==
  /\ Returned("run_simulation_step")
  /\ Len(ret.val) >= 3
  /\ ret.val[1].agent_id = ret.val[2].agent_id
  /\ ret.val[3].agent_id > ret.val[2].agent_id
  /\ \E i \in 1..Len(agents) : \E k \in 1..Len(agents[i].chosen_items) :
       current_menu_items[agents[i].chosen_items[k]].price
         # menu_items_master_list[agents[i].chosen_items[k]].price

\* C24: run_simulation_step gives every agent a budget within
\* agent_budget_range and a new basket (within max_items_per_agent and
\* within the new budget), and leaves the working menu, the master menu,
\* the number, the ids, the price sensitivities and the preferences of the
\* agents as they were.
C24_StepChangesBudgetAndBasketOnly ==
  [][(pc = "idle" /\ call'.op = "run_simulation_step") =>
       /\ current_menu_items' = current_menu_items
       /\ menu_items_master_list' = menu_items_master_list
       /\ Len(agents') = Len(agents)
       /\ \A i \in 1..Len(agents) :
            /\ agents'[i].agent_id = agents[i].agent_id
            /\ agents'[i].price_sensitivity = agents[i].price_sensitivity
            /\ agents'[i].preferences = agents[i].preferences
            /\ agents'[i].budget >= agent_budget_range[1]
            /\ agents'[i].budget <= agent_budget_range[2]
            /\ Len(agents'[i].chosen_items) <= call'.max_items
            /\ SumSeq([k \in 1..Len(agents'[i].chosen_items) |->
                         current_menu_items[agents'[i].chosen_items[k]].price])
                 <= agents'[i].budget
    ]_vars

\* C24 witness: a step has run on a working menu that differs from the
\* master menu, two agents have got different budgets and the one with the
\* larger budget has a basket.
C24_Witness ==
  /\ Returned("run_simulation_step")
  /\ current_menu_items # menu_items_master_list
  /\ \E i, j \in 1..Len(agents) :
       /\ agents[i].budget > agents[j].budget
       /\ agents[i].chosen_items # <<>>

\* The prices an item is compared at.
ComparedPrices == {1, 4, 9}
\* The agent, the item and the result of the _calculate_utility call that
\* has just returned.
CalculatedUtility == pc = "agent" /\ call.op = "_calculate_utility"
HasPreference == call.item.id \in DOMAIN agents[1].preferences
Preference == agents[1].preferences[call.item.id]
HasPositivePrice == "price" \in DOMAIN call.item /\ call.item.price > 0
FracEq(u, v) == u[1] * v[2] = v[1] * u[2]
\* The result is 0 without an entry or with the score 0, the score itself
\* when the price is missing or <= 0, and otherwise
\* preference / price^(price_sensitivity * (0.5 + preference)).
UtilityByCases ==
  /\ (~HasPreference \/ Preference = 0) => ret.val[1] = 0
  /\ (HasPreference /\ ~HasPositivePrice) => FracEq(ret.val, <<Preference, 2>>)
  /\ (HasPreference /\ Preference # 0 /\ HasPositivePrice) =>
       FracEq(ret.val,
              <<Preference,
                2 * PowHalf(call.item.price,
                            agents[1].price_sensitivity * (1 + Preference))>>)
\* The result is positive and greater than the utility of the same item at
\* every higher price.
UtilityDecreasesInPrice ==
  /\ FracPos(ret.val)
  /\ \A q \in ComparedPrices :
       q > call.item.price =>
         FracGT(ret.val, _calculate_utility(agents[1], [call.item EXCEPT !.price = q]))

\* C25, as stated: _calculate_utility returns 0 without a preference entry
\* or with the preference 0, the raw preference when the price is missing
\* or <= 0, otherwise preference / price^(price_sensitivity * (0.5 +
\* preference)); with a positive preference and a positive price the
\* utility is positive and strictly decreases as the price increases.
C25_UtilityStrictlyDecreasing ==
  CalculatedUtility =>
    /\ UtilityByCases
    /\ (HasPreference /\ Preference > 0 /\ HasPositivePrice) => UtilityDecreasesInPrice

\* C25, amended: the same values, and the utility is positive and strictly
\* decreases as a positive price increases when the preference is positive
\* and price_sensitivity is greater than 0.
C25_UtilityDecreasingWhenSensitive ==
  CalculatedUtility =>
    /\ UtilityByCases
    /\ (/\ HasPreference /\ Preference > 0 /\ HasPositivePrice
        /\ agents[1].price_sensitivity > 0) => UtilityDecreasesInPrice

\* C25 witness: the utility of an item with preference 1.0 at price 4 for
\* price_sensitivity 1 is 1.0 / 4^1.5 = 1/8.
C25_Witness ==
  /\ CalculatedUtility
  /\ HasPreference /\ Preference = 2
  /\ HasPositivePrice /\ call.item.price = 4
  /\ agents[1].price_sensitivity = 1
  /\ FracEq(ret.val, <<1, 8>>)

\* ============================================ two callers on one engine
\* Two callers of run_price_scenario on one engine.  A call is the sequence
\* of statements of lines 145-158: reset, update, (on a failed update:
\* reset, return) step, aggregate, reset, return.  pc is the discipline of
\* the callers: "atomic" when a call runs from its first statement to its
\* return before another call starts, as the synchronous method does on one
\* thread, "interleaved" when the statements of two calls may alternate.
\* frame[t] is the position and the locals of caller t, ret[t] what its
\* last call returned.
Callers == {1, 2}
NotCalling == [at |-> "idle", item_id |-> NoId, new_price |-> NotANumber,
               stepped |-> FALSE, seen |-> <<>>, choices |-> <<>>, analysis |-> None]

InitCallers ==
  \E menu \in Menus, discipline \in {"atomic", "interleaved"} :
    \E budgets \in [1..NumAgents -> Budgets],
       sens \in [1..NumAgents -> Sensitivities],
       draws \in [1..NumAgents -> [AllItemIds(menu) -> GeneratedPrefs]] :
      /\ constructed_menu = menu
      /\ menu_items_master_list = menu
      /\ current_menu_items = menu
      /\ aliased = TRUE
      /\ agents = [i \in 1..NumAgents |->
                     NewAgent(i - 1, budgets[i], sens[i], AllItemIds(menu), draws[i])]
      /\ pc = discipline
      /\ frame = [t \in Callers |-> NotCalling]
      /\ call = [op |-> "__init__", steps |-> 0]
      /\ ret = [t \in Callers |-> None]

\* Caller t may run its next statement: always when calls interleave, and
\* under the atomic discipline when no other caller is inside a call.
MayRun(t) ==
  \/ pc = "interleaved"
  \/ \A u \in Callers \ {t} : frame[u].at = "idle"

\* run_price_scenario, line 145: the call starts with a reset.
CallerEnters(t) ==
  \E item_id \in XedIdArgs, new_price \in PriceArgs :
    /\ MayRun(t)
    /\ frame[t].at = "idle"
    /\ SetMenus(reset_menu_to_master(EngineMenus))
    /\ frame' = [frame EXCEPT ![t] = [NotCalling EXCEPT !.at = "update",
                                                        !.item_id = item_id,
                                                        !.new_price = new_price]]
    /\ call' = [op |-> "run_price_scenario", caller |-> t, item_id |-> item_id,
                new_price |-> new_price, steps |-> 0]
    /\ ret' = [ret EXCEPT ![t] = Pending]
    /\ UNCHANGED <<constructed_menu, agents, pc>>

\* run_price_scenario, lines 147-148: the update and the test of its result.
CallerUpdates(t) ==
  LET upd == update_menu_item_price(EngineMenus, frame[t].item_id, frame[t].new_price)
  IN /\ MayRun(t)
     /\ frame[t].at = "update"
     /\ SetMenus(upd[2])
     /\ frame' = [frame EXCEPT ![t].at = IF upd[1] THEN "step" ELSE "failed"]
     /\ UNCHANGED <<constructed_menu, agents, pc, call, ret>>

\* run_price_scenario, lines 150-151: the reset and the return of None after
\* a failed update.
CallerGivesUp(t) ==
  /\ MayRun(t)
  /\ frame[t].at = "failed"
  /\ SetMenus(reset_menu_to_master(EngineMenus))
  /\ frame' = [frame EXCEPT ![t].at = "idle"]
  /\ ret' = [ret EXCEPT ![t] = None]
  /\ UNCHANGED <<constructed_menu, agents, pc, call>>

\* run_price_scenario, line 153: the step, on the working menu as it is
\* then (seen).
CallerSteps(t) ==
  \E budgets \in BudgetDraws :
    LET step == run_simulation_step(agents, current_menu_items, DefaultMaxItems, budgets)
    IN /\ MayRun(t)
       /\ frame[t].at = "step"
       /\ agents' = step[2]
       /\ frame' = [frame EXCEPT ![t].at = "aggregate", ![t].stepped = TRUE,
                                 ![t].seen = current_menu_items,
                                 ![t].choices = step[1]]
       /\ call' = [call EXCEPT !.caller = t, !.item_id = frame[t].item_id,
                               !.new_price = frame[t].new_price, !.steps = 1]
       /\ UNCHANGED <<constructed_menu, menu_items_master_list, current_menu_items,
                      aliased, pc, ret>>

\* run_price_scenario, line 154: the aggregation.
CallerAggregates(t) ==
  /\ MayRun(t)
  /\ frame[t].at = "aggregate"
  /\ frame' = [frame EXCEPT ![t].at = "reset",
                            ![t].analysis =
                              [kind |-> "analysis",
                               val |-> analyze_results(current_menu_items,
                                                       frame[t].choices)]]
  /\ UNCHANGED <<constructed_menu, menu_items_master_list, current_menu_items,
                 aliased, agents, pc, call, ret>>

\* run_price_scenario, lines 156-158: the last reset and the return.
CallerReturns(t) ==
  /\ MayRun(t)
  /\ frame[t].at = "reset"
  /\ SetMenus(reset_menu_to_master(EngineMenus))
  /\ frame' = [frame EXCEPT ![t].at = "idle"]
  /\ ret' = [ret EXCEPT ![t] = frame[t].analysis]
  /\ UNCHANGED <<constructed_menu, agents, pc, call>>

NextCallers ==
  \E t \in Callers :
    \/ CallerEnters(t)
    \/ CallerUpdates(t)
    \/ CallerGivesUp(t)
    \/ CallerSteps(t)
    \/ CallerAggregates(t)
    \/ CallerReturns(t)

SpecCallers == InitCallers /\ [][NextCallers]_vars

\* The master menu with the price change of a call and no other.
MasterWithChange(item_id, new_price) ==
  LET i == FindFirst(menu_items_master_list, item_id)
  IN [menu_items_master_list EXCEPT ![i].price = new_price.val]
\* The step of the call caller t is in, or has last made, ran on the
\* master menu with exactly the price change of that call.
SawOwnScenario(t) ==
  frame[t].stepped => frame[t].seen = MasterWithChange(frame[t].item_id, frame[t].new_price)

\* C26: when every call of run_price_scenario runs as one atomic section,
\* the step of every call runs on the master menu with exactly that call's
\* price change; when the statements of two calls interleave, a step can
\* run on another menu (the witness).
C26_AtomicCallsSeeOwnScenario ==
  pc = "atomic" => \A t \in Callers : SawOwnScenario(t)

\* C26 witness: with interleaved calls, the step of one call has run on a
\* working menu without the call's own price change and with the other
\* call's.
C26_Witness ==
  /\ pc = "interleaved"
  /\ \E t, u \in Callers :
       LET i == FindFirst(menu_items_master_list, frame[t].item_id)
           j == FindFirst(menu_items_master_list, frame[u].item_id)
       IN /\ t # u
          /\ frame[t].stepped
          /\ frame[u].at \in {"step", "aggregate", "reset"}
          /\ i # j
          /\ frame[t].seen[i].price = menu_items_master_list[i].price
          /\ frame[t].new_price.val # menu_items_master_list[i].price
          /\ frame[t].seen[j].price = frame[u].new_price.val
          /\ frame[u].new_price.val # menu_items_master_list[j].price

\* The budget that remains after the basket of the choose_items call that
\* has just returned, and the menu positions outside the basket that the
\* agent would still take: positive utility and a price within what
\* remains.
RemainingAfterBasket ==
  agents[1].budget
    - SumValues(Prices(current_menu_items), {ret.val[k] : k \in 1..Len(ret.val)})
StillWanted ==
  {i \in 1..Len(current_menu_items) :
     /\ \A k \in 1..Len(ret.val) : ret.val[k] # i
     /\ FracPos(UtilityAt(i))
     /\ current_menu_items[i].price <= RemainingAfterBasket}

\* C27, as stated: when the basket holds fewer than max_items items, no
\* menu item outside it has positive utility and a price at or below the
\* budget that remains, items priced 0 after the budget has been spent
\* exactly included.
C27_BasketMaximal ==
  (ChoseItems /\ Len(ret.val) < call.max_items_to_choose) => StillWanted = {}

\* C27, amended: when the basket holds fewer than max_items items and the
\* budget that remains is greater than 0, no menu item outside it has
\* positive utility and a price at or below the budget that remains (menu
\* prices are not negative).
C27_BasketMaximalWhileBudgetRemains ==
  (/\ ChoseItems
   /\ Len(ret.val) < call.max_items_to_choose
   /\ RemainingAfterBasket > 0) => StillWanted = {}

\* C27 witness: a basket of one item, short of max_items, with budget left
\* and an item of positive utility outside it that costs more than what is
\* left.
C27_Witness ==
  /\ ChoseItems
  /\ Len(ret.val) = 1
  /\ call.max_items_to_choose > 1
  /\ RemainingAfterBasket > 0
  /\ \E i \in 1..Len(current_menu_items) :
       /\ ret.val[1] # i
       /\ FracPos(UtilityAt(i))
       /\ current_menu_items[i].price > RemainingAfterBasket

\* The basket the agent of the choose_items call that has just returned
\* chooses, with the same budget, preferences and max_items, from the same
\* menu with the item at position x at the price q.
BasketAtPrice(x, q) ==
  choose_items(agents[1], [current_menu_items EXCEPT ![x].price = q],
               call.max_items_to_choose,
               [d \in AllItemIds(current_menu_items) |-> CHOOSE v \in LazyPrefs : TRUE])
    .chosen_items

\* C28: an item the agent picks at a positive price is also picked, by the
\* same agent with the same budget, preferences and max_items, from the
\* menu that differs only in a lower positive price of that item.
C28_PickedAtLowerPriceToo ==
  ChoseItems =>
    \A k \in 1..Len(ret.val) :
      \A q \in ComparedPrices :
        (0 < q /\ q < current_menu_items[ret.val[k]].price) =>
          \E l \in 1..Len(BasketAtPrice(ret.val[k], q)) :
            BasketAtPrice(ret.val[k], q)[l] = ret.val[k]

\* C28 witness: with max_items 1 and three candidates the agent picked an
\* item at price 4, which it also picks at price 1.
C28_Witness ==
  /\ ChoseItems
  /\ call.max_items_to_choose = 1
  /\ Len(Candidates) = 3
  /\ Len(ret.val) = 1
  /\ current_menu_items[ret.val[1]].price = 4
  /\ BasketAtPrice(ret.val[1], 1) = ret.val

DistinctNames(menu) ==
  \A i, j \in 1..Len(menu) : i # j => menu[i].name # menu[j].name
\* The price run_price_scenario(item_id, new_price) charges for the item at
\* a position of the master menu: new_price for the item it changes, the
\* master price for every other.
ScenarioPrice(i) ==
  IF i = FindFirst(menu_items_master_list, call.item_id)
  THEN call.new_price.val
  ELSE menu_items_master_list[i].price

\* C30: on a menu of pairwise distinct names, the aggregation
\* run_price_scenario(item_id, new_price) returns has, for the changed
\* item, a revenue of its demand times new_price and, for every other
\* item, a revenue of its demand times its master price.
C30_ScenarioRevenueAtScenarioPrice ==
  (/\ Returned("run_price_scenario")
   /\ ret.kind = "analysis"
   /\ DistinctNames(menu_items_master_list)) =>
    \A i \in 1..Len(menu_items_master_list) :
      LET name == menu_items_master_list[i].name
      IN /\ name \in DOMAIN ret.val.demand_per_item
         /\ name \in DOMAIN ret.val.revenue_per_item
         /\ ret.val.revenue_per_item[name]
              = ret.val.demand_per_item[name] * ScenarioPrice(i)

\* C30 witness: a scenario at a price above the master's in which the
\* changed item and another item were both bought.
C30_Witness ==
  /\ Returned("run_price_scenario")
  /\ ret.kind = "analysis"
  /\ DistinctNames(menu_items_master_list)
  /\ \E i, j \in 1..Len(menu_items_master_list) :
       /\ i = FindFirst(menu_items_master_list, call.item_id)
       /\ j # i
       /\ call.new_price.val > menu_items_master_list[i].price
       /\ ret.val.demand_per_item[menu_items_master_list[i].name] >= 1
       /\ ret.val.demand_per_item[menu_items_master_list[j].name] >= 1

====
